---- MODULE Spec2Model ----
(***************************************************************************)
(* SafeRoute AI: the risk-weighted routing engine.                         *)
(*                                                                         *)
(*   risk_scorer.py    RiskScorer.fit, predict_risk_scores,                *)
(*                     get_risk_category                                   *)
(*   graph_builder.py  build_graph, calculate_distance                     *)
(*   route_finder.py   RouteFinder.find_safest_route, find_shortest_route, *)
(*                     get_route_info                                      *)
(*                                                                         *)
(* Numbers.  The program computes in binary floating point; the model      *)
(* computes in exact integers on fixed grids:                              *)
(*   - a risk score is an integer number of 1/RiskScale (so 1.0 is         *)
(*     RiskScale);                                                         *)
(*   - an edge `risk` is kept as the numerator of x / (2 * RiskScale)      *)
(*     (the mean of two scores is their sum over 2);                       *)
(*   - an edge `weight` is kept as the numerator of x / RiskScale;         *)
(*   - avg_risk_score, a quotient, is kept as a fraction [num, den];       *)
(*   - coordinates are whole degrees, distances whole kilometres (the      *)
(*     program's metres, 111000 to the degree, divided by 1000), a square  *)
(*     root being rounded down to the kilometre;                           *)
(*   - a lighting score is an integer number of 1/LightScale, a            *)
(*     probability of 1/ProbScale, and a predicted risk score a fraction   *)
(*     [num, den].                                                         *)
(***************************************************************************)
EXTENDS Integers, Sequences, FiniteSets, TLC

VARIABLES
    graph,                      \* RouteFinder.graph / the value build_graph returns
    startArg,                   \* the ids a caller holds for find_*_route
    endArg,
    pathArg,                    \* the path a caller holds for get_route_info
    last,                       \* the last call made and what it returned
    locations_df,               \* build_graph argument: the location table
    risk_scores,                \* build_graph argument: one score per row
    max_connection_distance,    \* build_graph argument
    risk_scorer,                \* a RiskScorer object
    features_df,                \* the feature table RiskScorer.fit is called on
    proba,                      \* what logistic.predict_proba has answered, by row
    session_state               \* st.session_state of the Geoapify dashboard

vars == <<graph, startArg, endArg, pathArg, last, locations_df, risk_scores,
          max_connection_distance, risk_scorer, features_df, proba,
          session_state>>

(***************************************************************************)
(* Bounds of the model.                                                    *)
(***************************************************************************)
MaxEdges == 4           \* graphs handed to RouteFinder have up to this many edges
MaxPathLen == 3         \* get_route_info is called on paths of up to this many nodes
MaxLocations == 3       \* build_graph is called on tables of up to this many rows
RiskScale == 2          \* risk scores are 0/RiskScale .. RiskScale/RiskScale
LightScale == 2         \* lighting scores are 0/LightScale .. LightScale/LightScale
ProbScale == 1          \* probabilities are 0/ProbScale .. ProbScale/ProbScale
MaxClusters == 3        \* a RiskScorer has 1 .. MaxClusters clusters
MaxRows == 3            \* fit is called on tables of up to this many rows
MaxPredictRows == 2     \* predict_risk_scores on tables of up to this many rows

(***************************************************************************)
(* Small helpers.                                                          *)
(***************************************************************************)
Range(s) == {s[i] : i \in DOMAIN s}

Has(f, k) == k \in DOMAIN f

\* dict assignment  f[k] = v
Put(f, k, v) == [x \in (DOMAIN f) \cup {k} |-> IF x = k THEN v ELSE f[x]]

\* the elements of a finite set of integers in ascending order
RECURSIVE Ascending(_)
Ascending(S) ==
    IF S = {} THEN <<>>
    ELSE LET m == CHOOSE x \in S : \A y \in S : x <= y
         IN  <<m>> \o Ascending(S \ {m})

(***************************************************************************)
(* networkx.Graph as the program uses it: insertion-ordered nodes with     *)
(* attributes, insertion-ordered adjacency, one attribute record per       *)
(* undirected edge (keyed by the set of its two end nodes).                *)
(***************************************************************************)
EmptyGraph == [order |-> <<>>, node |-> <<>>, adj |-> <<>>, edge |-> <<>>]

GraphNodes(G) == DOMAIN G.adj

HasEdge(G, u, v) == {u, v} \in DOMAIN G.edge

EdgeData(G, u, v) == G.edge[{u, v}]

\* G.add_node(n, **attr): a new node is appended to the iteration order, a
\* node that is already there keeps its place and has its attributes updated
AddNode(G, n, attr) ==
    [G EXCEPT !.order = IF n \in GraphNodes(G) THEN @ ELSE Append(@, n),
              !.node  = Put(@, n, attr),
              !.adj   = IF n \in GraphNodes(G) THEN @ ELSE Put(@, n, <<>>)]

\* adjacency dict of u after v became (or already was) a neighbour
AdjWith(G, u, v) ==
    IF v \in Range(G.adj[u]) THEN G.adj[u] ELSE Append(G.adj[u], v)

\* G.add_edge(u, v, **data) between two nodes of G: the edge's record is
\* created, or updated in place when the edge already exists
AddEdge(G, u, v, data) ==
    LET adj1 == Put(G.adj, u, AdjWith(G, u, v))
        adj2 == Put(adj1, v, IF u \in Range(adj1[v]) THEN adj1[v]
                             ELSE Append(adj1[v], u))
    IN  [G EXCEPT !.adj = adj2, !.edge = Put(@, {u, v}, data)]

(***************************************************************************)
(* nx.shortest_path(G, source, target, weight=attr).  With a source, a     *)
(* target and a weight attribute networkx runs bidirectional_dijkstra: two *)
(* searches, forward from the source (dir = 0) and backward from the       *)
(* target (dir = 1), that alternate; each has a heap `fringe` of           *)
(* (distance, counter, node), the tentative distances `seen`, the final    *)
(* distances `dists` and the paths `paths`.  The search stops when a node  *)
(* is finalised in both directions and returns the best meeting path       *)
(* recorded so far.  Tuples below are indexed by dir + 1.                  *)
(***************************************************************************)
\* heappop of a queue that is no priority queue: the oldest entry
HeapMin_fifo(F) ==
    CHOOSE x \in F : \A y \in F : x[2] <= y[2]

\* heappop: the least (distance, counter, node); counters are unique
HeapMin(F) ==
    CHOOSE x \in F : \A y \in F :
        \/ x[1] < y[1]
        \/ x[1] = y[1] /\ x[2] <= y[2]

\* the list is left as it is
Reverse_not(s) == s

\* revpath.reverse()
Reverse(s) == [i \in 1..Len(s) |-> s[Len(s) + 1 - i]]

\* the body of  `for w, d in neighs[dir][v].items()`  from the i-th neighbour on
RECURSIVE Relax(_, _, _, _, _, _)
Relax(G, attr, st, dir, v, i) ==
    IF i > Len(G.adj[v]) \/ st.err THEN st
    ELSE
      LET w        == G.adj[v][i]
          cost     == EdgeData(G, v, w)[attr]
          vwLength == st.dists[dir + 1][v] + cost
          d        == dir + 1
      IN
      IF Has(st.dists[d], w)
      THEN IF vwLength < st.dists[d][w]
           THEN [st EXCEPT !.err = TRUE]   \* "Contradictory paths found"
           ELSE Relax(G, attr, st, dir, v, i + 1)
      ELSE IF ~Has(st.seen[d], w) \/ vwLength < st.seen[d][w]
      THEN \* relaxing
        LET st1 == [st EXCEPT !.seen[d]   = Put(@, w, vwLength),
                              !.fringe[d] = @ \cup {<<vwLength, st.c, w>>},
                              !.c         = @ + 1,
                              !.paths[d]  = Put(@, w, Append(st.paths[d][v], w))]
            meet      == Has(st1.seen[1], w) /\ Has(st1.seen[2], w)
            totaldist == st1.seen[1][w] + st1.seen[2][w]
            st2 == IF meet /\ (st1.finalpath = <<>> \/ st1.finaldist > totaldist)
                   THEN [st1 EXCEPT
                           !.finaldist = totaldist,
                           !.finalpath = st1.paths[1][w]
                                         \o Tail(Reverse(st1.paths[2][w]))]
                   ELSE st1
        IN  Relax(G, attr, st2, dir, v, i + 1)
      ELSE Relax(G, attr, st, dir, v, i + 1)

\* `while fringe[0] and fringe[1]`
RECURSIVE DijkstraLoop(_, _, _)
DijkstraLoop(G, attr, st) ==
    IF st.fringe[1] = {} \/ st.fringe[2] = {}
    THEN [kind |-> "NetworkXNoPath", path |-> <<>>]
    ELSE
      LET dir  == 1 - st.dir
          d    == dir + 1
          top  == HeapMin(st.fringe[d])
          dist == top[1]
          v    == top[3]
          st1  == [st EXCEPT !.dir = dir, !.fringe[d] = @ \ {top}]
      IN
      IF Has(st1.dists[d], v) THEN DijkstraLoop(G, attr, st1)
      ELSE
        LET st2 == [st1 EXCEPT !.dists[d] = Put(@, v, dist)]
        IN
        IF Has(st2.dists[(1 - dir) + 1], v)
        THEN [kind |-> "path", path |-> st2.finalpath]
        ELSE LET st3 == Relax(G, attr, st2, dir, v, 1)
             IN  IF st3.err THEN [kind |-> "ValueError", path |-> <<>>]
                 ELSE DijkstraLoop(G, attr, st3)

bidirectional_dijkstra(G, source, target, attr) ==
    IF source = target THEN [kind |-> "path", path |-> <<source>>]
    ELSE DijkstraLoop(G, attr,
           [dists     |-> << <<>>, <<>> >>,
            paths     |-> << Put(<<>>, source, <<source>>),
                             Put(<<>>, target, <<target>>) >>,
            fringe    |-> << {<<0, 0, source>>}, {<<0, 1, target>>} >>,
            seen      |-> << Put(<<>>, source, 0), Put(<<>>, target, 0) >>,
            c         |-> 2,
            finaldist |-> 0,
            finalpath |-> <<>>,
            dir       |-> 1,
            err       |-> FALSE])

shortest_path(G, source, target, attr) ==
    bidirectional_dijkstra(G, source, target, attr)

(***************************************************************************)
(* RouteFinder                                                             *)
(***************************************************************************)
\* what a find_* call produced: a path, None, or a raised ValueError
RetPath(p)   == [kind |-> "path", path |-> p, msg |-> ""]
RetNone      == [kind |-> "None", path |-> <<>>, msg |-> ""]
RetError(m)  == [kind |-> "ValueError", path |-> <<>>, msg |-> m]

\* the end id is not validated and the failed lookup is swallowed
FindRoute_noEndCheck(G, start_node, end_node, attr) ==
    IF start_node \notin GraphNodes(G) THEN RetError("Start node not found in graph")
    ELSE IF end_node \notin GraphNodes(G) THEN RetNone
    ELSE LET r == shortest_path(G, start_node, end_node, attr)
         IN  CASE r.kind = "path"           -> RetPath(r.path)
               [] r.kind = "NetworkXNoPath" -> RetNone
               [] OTHER                     -> RetError("Contradictory paths found")

\* NetworkXNoPath is not caught
FindRoute_noPathRaises(G, start_node, end_node, attr) ==
    IF start_node \notin GraphNodes(G) THEN RetError("Start node not found in graph")
    ELSE IF end_node \notin GraphNodes(G) THEN RetError("End node not found in graph")
    ELSE LET r == shortest_path(G, start_node, end_node, attr)
         IN  CASE r.kind = "path"           -> RetPath(r.path)
               [] r.kind = "NetworkXNoPath" -> RetError("No path between nodes")
               [] OTHER                     -> RetError("Contradictory paths found")

\* the common body of find_safest_route and find_shortest_route
FindRoute(G, start_node, end_node, attr) ==
    IF start_node \notin GraphNodes(G) THEN RetError("Start node not found in graph")
    ELSE IF end_node \notin GraphNodes(G) THEN RetError("End node not found in graph")
    ELSE LET r == shortest_path(G, start_node, end_node, attr)
         IN  CASE r.kind = "path"           -> RetPath(r.path)
               [] r.kind = "NetworkXNoPath" -> RetNone
               [] OTHER                     -> RetError("Contradictory paths found")

find_safest_route(G, start_node, end_node) ==
    FindRoute(G, start_node, end_node, "weight")

\* the shortest route searched by `weight` as well
find_shortest_route_byWeight(G, start_node, end_node) ==
    FindRoute(G, start_node, end_node, "weight")

\* NetworkXNoPath is not caught by find_shortest_route
find_shortest_route_noPathRaises(G, start_node, end_node) ==
    FindRoute_noPathRaises(G, start_node, end_node, "distance")

find_shortest_route(G, start_node, end_node) ==
    FindRoute(G, start_node, end_node, "distance")

\* a `path` argument: None or a list of node ids
PathNone     == [isNone |-> TRUE, nodes |-> <<>>]
PathOf(p)    == [isNone |-> FALSE, nodes |-> p]

ZeroInfo ==
    [total_distance |-> 0, total_risk_score |-> 0,
     avg_risk_score |-> [num |-> 0, den |-> 1], num_segments |-> 0]

\* the loop  `for i in range(num_segments)`  from segment i on, with the
\* running totals acc = <<total_distance, total_risk>>
RECURSIVE SumSegments(_, _, _, _)
SumSegments(G, p, i, acc) ==
    IF i > Len(p) - 1 THEN acc
    ELSE LET node1 == p[i]
             node2 == p[i + 1]
         IN  IF HasEdge(G, node1, node2)
             THEN SumSegments(G, p, i + 1,
                    <<acc[1] + EdgeData(G, node1, node2).distance,
                      acc[2] + EdgeData(G, node1, node2).risk>>)
             ELSE SumSegments(G, p, i + 1, acc)

\* the average taken over the segments that are edges only
AvgDivisor_edgesOnly(G, p) ==
    Cardinality({i \in 1..(Len(p) - 1) : HasEdge(G, p[i], p[i + 1])})

\* num_segments, the divisor of avg_risk
AvgDivisor(G, p) == Len(p) - 1

\* nodes counted instead of segments, and only the empty path short-cut
get_route_info_countsNodes(G, path) ==
    IF path.isNone \/ Len(path.nodes) = 0 THEN ZeroInfo
    ELSE LET tot == SumSegments(G, path.nodes, 1, <<0, 0>>)
         IN  [total_distance   |-> tot[1],
              total_risk_score |-> tot[2],
              avg_risk_score   |-> [num |-> tot[2], den |-> Len(path.nodes)],
              num_segments     |-> Len(path.nodes)]

get_route_info(G, path) ==
    IF path.isNone \/ Len(path.nodes) = 0 \/ Len(path.nodes) < 2 THEN ZeroInfo
    ELSE LET num_segments == Len(path.nodes) - 1
             tot == SumSegments(G, path.nodes, 1, <<0, 0>>)
         IN  [total_distance   |-> tot[1],
              total_risk_score |-> tot[2],
              avg_risk_score   |-> IF num_segments > 0
                                   THEN [num |-> tot[2], den |-> AvgDivisor(G, path.nodes)]
                                   ELSE [num |-> 0, den |-> 1],
              num_segments     |-> num_segments]

\* the difference of two fractions [num, den]
FractionMinus(x, y) ==
    [num |-> x.num * y.den - y.num * x.den, den |-> x.den * y.den]

\* the two differences are taken the other way round
compare_routes_swapped(G, path1, path2) ==
    LET info1 == get_route_info(G, path1)
        info2 == get_route_info(G, path2)
    IN  [route1 |-> info1,
         route2 |-> info2,
         distance_difference |-> info2.total_distance - info1.total_distance,
         risk_difference |-> FractionMinus(info2.avg_risk_score, info1.avg_risk_score)]

compare_routes(G, path1, path2) ==
    LET info1 == get_route_info(G, path1)
        info2 == get_route_info(G, path2)
    IN  [route1 |-> info1,
         route2 |-> info2,
         distance_difference |-> info1.total_distance - info2.total_distance,
         risk_difference |-> FractionMinus(info1.avg_risk_score, info2.avg_risk_score)]

(***************************************************************************)
(* risk_scorer.py.  A feature table is a sequence of rows with the columns *)
(* lighting_score (in units of 1/LightScale), total_incidents,             *)
(* high_severity_count and recent_incidents.                               *)
(*                                                                         *)
(* The three scikit-learn estimators are modelled by what the program      *)
(* relies on:                                                              *)
(*   - StandardScaler keeps each column's mean and variance (a column of   *)
(*     variance 0 is scaled by 1);                                         *)
(*   - KMeans keeps K centres, each the mean of the rows of its cluster,   *)
(*     and labels a row with the nearest centre in the scaled space, the   *)
(*     lowest cluster id winning a tie; which converged clustering fit     *)
(*     ends in is not determined here, so fit may end in any one;          *)
(*   - LogisticRegression refuses labels of a single class and otherwise   *)
(*     yields, for a row, a probability in [0, 1] (in units of             *)
(*     1/ProbScale) that depends on the row only: `proba` keeps the        *)
(*     answers the fitted classifier has given, and it gives them again.   *)
(***************************************************************************)
feature_cols ==
    <<"lighting_score", "total_incidents", "high_severity_count", "recent_incidents">>

Cols == DOMAIN feature_cols

\* X = features_df[feature_cols].values
Values(df) == [i \in DOMAIN df |-> [c \in Cols |-> df[i][feature_cols[c]]]]

RECURSIVE Total(_)
Total(s) == IF s = <<>> THEN 0 ELSE Head(s) + Total(Tail(s))

RECURSIVE Product(_)
Product(s) == IF s = <<>> THEN 1 ELSE Head(s) * Product(Tail(s))

\* StandardScaler: n rows seen; per column the sum, and n * n * variance
NoScaler == [fitted |-> FALSE, n |-> 0, sum |-> <<>>, var |-> <<>>]

StandardScaler_fit(X) ==
    LET n == Len(X)
        colsum(c) == Total([i \in 1..n |-> X[i][c]])
        colsq(c)  == Total([i \in 1..n |-> X[i][c] * X[i][c]])
    IN  [fitted |-> TRUE, n |-> n,
         sum |-> [c \in Cols |-> colsum(c)],
         var |-> [c \in Cols |-> n * colsq(c) - colsum(c) * colsum(c)]]

\* 1 / scale_[c]^2 up to a factor common to all columns: scale_[c]^2 is
\* var[c] / n^2, or 1 when the column is constant
InvScale2(scaler, c) ==
    LET v(d) == IF scaler.var[d] = 0 THEN scaler.n * scaler.n ELSE scaler.var[d]
    IN  Product([d \in Cols |-> IF d = c THEN 1 ELSE v(d)])

\* A centre is kept as the number and the sum of the raw rows it is the
\* mean of.  The squared distance of the scaled row x to the scaled centre
\* is Dist2(scaler, x, centre) / centre.cnt^2, up to the common factor.
Dist2(scaler, x, centre) ==
    Total([c \in Cols |->
             InvScale2(scaler, c)
             * (x[c] * centre.cnt - centre.sum[c])
             * (x[c] * centre.cnt - centre.sum[c])])

Closer(scaler, x, a, b) ==
    Dist2(scaler, x, a) * b.cnt * b.cnt < Dist2(scaler, x, b) * a.cnt * a.cnt

\* kmeans.predict(X_scaled) for one row: the id (0..K-1) of the nearest
\* centre, the first of several equally near
KMeans_predict_row(scaler, centers, x) ==
    LET k == CHOOSE k \in DOMAIN centers :
                 /\ \A j \in DOMAIN centers : ~Closer(scaler, x, centers[j], centers[k])
                 /\ \A j \in DOMAIN centers :
                       j < k => Closer(scaler, x, centers[k], centers[j])
    IN  k - 1

\* the centres of a labelling: the mean of each cluster's rows; a cluster
\* without rows has its centre on the row fill[k]
CentersOf(X, labels, K, fill) ==
    [k \in 1..K |->
        LET members == {i \in DOMAIN X : labels[i] = k - 1}
        IN  IF members = {}
            THEN [cnt |-> 1, sum |-> X[fill[k]]]
            ELSE [cnt |-> Cardinality(members),
                  sum |-> [c \in Cols |->
                             Total([i \in DOMAIN X |->
                                      IF labels[i] = k - 1 THEN X[i][c] ELSE 0])]]]

Min(a, b) == IF a <= b THEN a ELSE b

\* kmeans.fit_predict(X_scaled): fewer rows than clusters is an error;
\* otherwise a converged clustering, one in which every row is labelled
\* with its nearest centre and as many clusters have rows as there are
\* distinct rows, up to K
KMeans_fit_predict(scaler, X, K) ==
    IF Len(X) < K THEN {[kind |-> "ValueError"]}
    ELSE LET used == Min(K, Cardinality(Range(X)))
             Labellings == {l \in [DOMAIN X -> 0..(K - 1)] :
                               Cardinality(Range(l)) = used}
             Fills(l) == {f \in [1..K -> DOMAIN X] :
                             \A k \in 1..K : (k - 1) \in Range(l) => f[k] = 1}
             Converged(l, f) ==
                 LET centers == CentersOf(X, l, K, f)
                 IN  \A i \in DOMAIN X :
                        KMeans_predict_row(scaler, centers, X[i]) = l[i]
         IN  UNION {{[kind |-> "labels", labels_ |-> l,
                      cluster_centers_ |-> CentersOf(X, l, K, f)] :
                        f \in {g \in Fills(l) : Converged(l, g)}} :
                    l \in Labellings}

NoKMeans == [fitted |-> FALSE, labels_ |-> <<>>, cluster_centers_ |-> <<>>]

NoLogistic == [fitted |-> FALSE, y |-> <<>>]

\* RiskScorer(n_clusters)
RiskScorer(n_clusters) ==
    [n_clusters      |-> n_clusters,
     kmeans          |-> NoKMeans,
     logistic        |-> NoLogistic,
     scaler          |-> NoScaler,
     is_fitted       |-> FALSE,
     cluster_to_risk |-> <<>>]

\* features_df.loc[cluster_mask, 'total_incidents'].mean(), as the sum and
\* the number of the values; the mean of no values is NaN (cnt = 0)
ClusterMean(df, cluster_labels, cluster_id) ==
    [sum |-> Total([i \in DOMAIN df |->
                      IF cluster_labels[i] = cluster_id
                      THEN df[i].total_incidents ELSE 0]),
     cnt |-> Cardinality({i \in DOMAIN df : cluster_labels[i] = cluster_id})]

IsNaN(m) == m.cnt = 0

\* a sorts before b in np.argsort(cluster_risks): by value, NaN last, equal
\* values in index order
SortsBefore(cluster_risks, a, b) ==
    LET x == cluster_risks[a]
        y == cluster_risks[b]
    IN  IF IsNaN(x) THEN IsNaN(y) /\ a < b
        ELSE IF IsNaN(y) THEN TRUE
        ELSE \/ x.sum * y.cnt < y.sum * x.cnt
             \/ (x.sum * y.cnt = y.sum * x.cnt /\ a < b)

\* np.argsort(cluster_risks) in descending order
RECURSIVE argsort_descending(_, _)
argsort_descending(cluster_risks, ids) ==
    IF ids = {} THEN <<>>
    ELSE LET m == CHOOSE a \in ids :
                     \A b \in ids \ {a} : SortsBefore(cluster_risks, b, a)
         IN  <<m>> \o argsort_descending(cluster_risks, ids \ {m})

\* np.argsort(cluster_risks): the ids still in `ids`, in sorted order
RECURSIVE argsort(_, _)
argsort(cluster_risks, ids) ==
    IF ids = {} THEN <<>>
    ELSE LET m == CHOOSE a \in ids :
                     \A b \in ids \ {a} : SortsBefore(cluster_risks, a, b)
         IN  <<m>> \o argsort(cluster_risks, ids \ {m})

Raise(type, msg) == [kind |-> type, msg |-> msg]

ReturnSelf == [kind |-> "self", msg |-> ""]

\* RiskScorer.fit(features_df), km being what kmeans.fit_predict comes to.
\* The result is the object as the call leaves it and what the call
\* returns or raises.
fit(self, df, km) ==
    LET X == Values(df)
    IN  IF Len(X) = 0
        THEN \* scaler.fit_transform resets the scaler, then rejects no rows
             [self |-> [self EXCEPT !.scaler = NoScaler],
              ret  |-> Raise("ValueError", "StandardScaler: 0 samples")]
        ELSE
        LET s1 == [self EXCEPT !.scaler = StandardScaler_fit(X)]
        IN  IF km.kind = "ValueError"
            THEN [self |-> s1,
                  ret  |-> Raise("ValueError", "KMeans: n_samples < n_clusters")]
            ELSE
            LET ids             == 0..(self.n_clusters - 1)
                cluster_labels  == km.labels_
                cluster_risks   == [k \in ids |-> ClusterMean(df, cluster_labels, k)]
                cluster_order   == argsort(cluster_risks, ids)
                cluster_to_risk == [old \in ids |->
                                      (CHOOSE p \in DOMAIN cluster_order :
                                          cluster_order[p] = old) - 1]
                y        == [i \in DOMAIN X |-> cluster_to_risk[cluster_labels[i]]]
                y_binary == [i \in DOMAIN X |->
                               IF y[i] >= self.n_clusters - 1 THEN 1 ELSE 0]
                s2 == [s1 EXCEPT !.kmeans = [fitted |-> TRUE,
                                             labels_ |-> cluster_labels,
                                             cluster_centers_ |-> km.cluster_centers_],
                                 !.cluster_to_risk = cluster_to_risk]
            IN  IF Cardinality(Range(y_binary)) < 2
                THEN \* logistic.fit raises before it assigns coef_: a classifier
                     \* fitted earlier stays as it was
                     [self |-> [s2 EXCEPT !.logistic = [fitted |-> self.logistic.fitted,
                                                        y |-> y_binary]],
                      ret  |-> Raise("ValueError",
                                     "LogisticRegression: only one class")]
                ELSE [self |-> [s2 EXCEPT !.logistic = [fitted |-> TRUE, y |-> y_binary],
                                          !.is_fitted = TRUE],
                      ret  |-> ReturnSelf]

\* np.clip(x, lo, hi)
Clip(x, lo, hi) == IF x < lo THEN lo ELSE IF x > hi THEN hi ELSE x

\* A score is a fraction [num, den]; den = 0 is NaN, what dividing the rank 0
\* by n_clusters - 1 = 0 gives.
ScoreDen(K) == 10 * (K - 1) * ProbScale * LightScale

\* the sum is not clipped
FinalScore_noClip(K, cluster_risk, risk_prob, lighting_score) ==
    [num |-> 6 * cluster_risk * ProbScale * LightScale
             + 4 * risk_prob * (K - 1) * LightScale
             + 2 * (LightScale - lighting_score) * (K - 1) * ProbScale,
     den |-> ScoreDen(K)]

\* the lighting penalty is subtracted
FinalScore_penaltySign(K, cluster_risk, risk_prob, lighting_score) ==
    [num |-> Clip(6 * cluster_risk * ProbScale * LightScale
                  + 4 * risk_prob * (K - 1) * LightScale
                  - 2 * (LightScale - lighting_score) * (K - 1) * ProbScale,
                  0, ScoreDen(K)),
     den |-> ScoreDen(K)]

\* np.clip(0.6 * cluster_risk / (n_clusters - 1) + 0.4 * risk_prob
\*         + (1 - lighting_score) * 0.2, 0, 1)
FinalScore(K, cluster_risk, risk_prob, lighting_score) ==
    [num |-> Clip(6 * cluster_risk * ProbScale * LightScale
                  + 4 * risk_prob * (K - 1) * LightScale
                  + 2 * (LightScale - lighting_score) * (K - 1) * ProbScale,
                  0, ScoreDen(K)),
     den |-> ScoreDen(K)]

\* the scaler is fitted again on the table to predict
PredictFitted_refit(self, df, risk_probs) ==
    LET X == Values(df)
    IN  IF ~self.scaler.fitted THEN Raise("NotFittedError", "StandardScaler")
        ELSE IF Len(X) = 0 THEN Raise("ValueError", "StandardScaler: 0 samples")
        ELSE IF ~self.kmeans.fitted THEN Raise("NotFittedError", "KMeans")
        ELSE IF ~self.logistic.fitted THEN Raise("NotFittedError", "LogisticRegression")
        ELSE
        LET cluster_labels ==
                [i \in DOMAIN X |->
                    KMeans_predict_row(StandardScaler_fit(X),
                                       self.kmeans.cluster_centers_, X[i])]
            cluster_risks == [i \in DOMAIN X |-> self.cluster_to_risk[cluster_labels[i]]]
        IN  [kind |-> "scores",
             scores |-> [i \in DOMAIN X |->
                           FinalScore(self.n_clusters, cluster_risks[i],
                                      risk_probs[i], df[i].lighting_score)]]

\* predict_risk_scores past its first check: the scores of the rows of df,
\* risk_probs being what logistic.predict_proba(X_scaled)[:, 1] comes to.
\* An estimator that was never fitted raises scikit-learn's NotFittedError.
PredictFitted(self, df, risk_probs) ==
    LET X == Values(df)
    IN  IF ~self.scaler.fitted THEN Raise("NotFittedError", "StandardScaler")
        ELSE IF Len(X) = 0 THEN Raise("ValueError", "StandardScaler: 0 samples")
        ELSE IF ~self.kmeans.fitted THEN Raise("NotFittedError", "KMeans")
        ELSE IF ~self.logistic.fitted THEN Raise("NotFittedError", "LogisticRegression")
        ELSE
        LET cluster_labels ==
                [i \in DOMAIN X |->
                    KMeans_predict_row(self.scaler, self.kmeans.cluster_centers_, X[i])]
            cluster_risks == [i \in DOMAIN X |-> self.cluster_to_risk[cluster_labels[i]]]
        IN  [kind |-> "scores",
             scores |-> [i \in DOMAIN X |->
                           FinalScore(self.n_clusters, cluster_risks[i],
                                      risk_probs[i], df[i].lighting_score)]]

\* is_fitted is not looked at
predict_risk_scores_noCheck(self, df, risk_probs) ==
    PredictFitted(self, df, risk_probs)

\* RiskScorer.predict_risk_scores(features_df)
predict_risk_scores(self, df, risk_probs) ==
    IF ~self.is_fitted
    THEN Raise("ValueError", "RiskScorer must be fitted before prediction")
    ELSE PredictFitted(self, df, risk_probs)

\* score < t / 100 for a score [num, den]; a comparison with NaN is false
Below(score, t) == score.den # 0 /\ 100 * score.num < t * score.den

\* the lower threshold is met by Low
get_risk_category_inclusive(risk_score) ==
    IF risk_score.den # 0 /\ 100 * risk_score.num <= 33 * risk_score.den THEN "Low"
    ELSE IF Below(risk_score, 67) THEN "Medium"
    ELSE "High"

\* RiskScorer.get_risk_category(risk_score)
get_risk_category(risk_score) ==
    IF Below(risk_score, 33) THEN "Low"
    ELSE IF Below(risk_score, 67) THEN "Medium"
    ELSE "High"

\* add_risk_heatmap: the colour and the label of one location's marker
heatmap_marker(risk_score) ==
    IF Below(risk_score, 33) THEN [color |-> "green", risk_label |-> "Low Risk"]
    ELSE IF Below(risk_score, 67) THEN [color |-> "orange", risk_label |-> "Medium Risk"]
    ELSE [color |-> "red", risk_label |-> "High Risk"]

\* the loop of add_risk_heatmap over locations_df.iterrows(): the marker of
\* each row, from risk_scores[idx]
add_risk_heatmap(df, scores) ==
    [p \in DOMAIN df |-> heatmap_marker(scores[df[p].idx + 1])]

\* demo.py: low_risk = (risk_scores < 0.33).sum(),
\* med_risk = ((risk_scores >= 0.33) & (risk_scores < 0.67)).sum(),
\* high_risk = (risk_scores >= 0.67).sum()
AtLeast(score, t) == score.den # 0 /\ 100 * score.num >= t * score.den

risk_distribution(scores) ==
    [low_risk  |-> Cardinality({i \in DOMAIN scores : Below(scores[i], 33)}),
     med_risk  |-> Cardinality({i \in DOMAIN scores :
                                   AtLeast(scores[i], 33) /\ Below(scores[i], 67)}),
     high_risk |-> Cardinality({i \in DOMAIN scores : AtLeast(scores[i], 67)})]

(***************************************************************************)
(* The calls.  `last` records the call just made: its name, its arguments, *)
(* what it returned, (for get_route_info) which call's result was passed   *)
(* in, and (for predict_risk_scores) how many such calls were made in a    *)
(* row.                                                                    *)
(***************************************************************************)
NoCall ==
    [op |-> "none", start |-> 0, end |-> 0, ret |-> RetNone,
     via |-> "none", arg |-> PathNone, info |-> ZeroInfo, nth |-> 0]

buildVars == <<locations_df, risk_scores, max_connection_distance>>

scorerVars == <<risk_scorer, features_df, proba>>

appVars == <<session_state>>

\* a search that leaves the graph's adjacency lists in reverse order
FindSafestRoute_reordersGraph ==
    /\ last' = [NoCall EXCEPT !.op = "find_safest_route",
                              !.start = startArg, !.end = endArg,
                              !.ret = find_safest_route(graph, startArg, endArg)]
    /\ graph' = [graph EXCEPT !.adj = [n \in DOMAIN graph.adj |-> Reverse(graph.adj[n])]]
    /\ UNCHANGED <<startArg, endArg, pathArg, buildVars, scorerVars, appVars>>

FindSafestRoute ==
    /\ last' = [NoCall EXCEPT !.op = "find_safest_route",
                              !.start = startArg, !.end = endArg,
                              !.ret = find_safest_route(graph, startArg, endArg)]
    /\ UNCHANGED <<graph, startArg, endArg, pathArg, buildVars, scorerVars, appVars>>

FindShortestRoute ==
    /\ last' = [NoCall EXCEPT !.op = "find_shortest_route",
                              !.start = startArg, !.end = endArg,
                              !.ret = find_shortest_route(graph, startArg, endArg)]
    /\ UNCHANGED <<graph, startArg, endArg, pathArg, buildVars, scorerVars, appVars>>

\* get_route_info(path) on the route the previous find_* call returned
\* (demo.py: safest_info = route_finder.get_route_info(safest_path))
GetRouteInfoOfResult ==
    /\ last.op \in {"find_safest_route", "find_shortest_route"}
    /\ last.ret.kind \in {"path", "None"}
    /\ LET arg == IF last.ret.kind = "None" THEN PathNone ELSE PathOf(last.ret.path)
       IN  last' = [last EXCEPT !.op = "get_route_info", !.via = last.op,
                                !.arg = arg, !.info = get_route_info(graph, arg)]
    /\ UNCHANGED <<graph, startArg, endArg, pathArg, buildVars, scorerVars, appVars>>

\* get_route_info(path) on the path the caller holds
GetRouteInfo ==
    /\ last' = [NoCall EXCEPT !.op = "get_route_info", !.arg = pathArg,
                              !.info = get_route_info(graph, pathArg)]
    /\ UNCHANGED <<graph, startArg, endArg, pathArg, buildVars, scorerVars, appVars>>

(***************************************************************************)
(* Inputs.  The graphs handed to RouteFinder(graph) have the nodes 1..4    *)
(* and up to MaxEdges edges (four make a 4-cycle, or a triangle with a     *)
(* pendant node), each edge with the three attributes; the adjacency order *)
(* is the one add_edge produces when edges are added pair by pair, (i, j)  *)
(* with i < j.  Callers pass the node ids and one id, 0, that is no node.  *)
(***************************************************************************)
Nodes == 1..4

QueryIds == Nodes \cup {0}

NodePairs == {{u, v} : u, v \in Nodes} \ {{u} : u \in Nodes}

Weights == {0, 2}
Distances == {1, 3}

RouteEdgeAttrs == [weight : Weights, distance : Distances, risk : {1}]

NoAttrs == [latitude |-> 0, longitude |-> 0, risk_score |-> 0]

GraphOf(f) ==
    [order |-> Ascending(Nodes),
     node  |-> [n \in Nodes |-> NoAttrs],
     adj   |-> [n \in Nodes |-> Ascending({m \in Nodes : {n, m} \in DOMAIN f})],
     edge  |-> f]

EdgeSets(k) == {X \in SUBSET NodePairs : Cardinality(X) <= k}

RouteGraphs ==
    {GraphOf(f) : f \in UNION {[E -> RouteEdgeAttrs] : E \in EdgeSets(MaxEdges)}}

(***************************************************************************)
(* The Geoapify dashboard (streamlit_app.py).  Points are <<lat, lon>> in  *)
(* whole units, even so that a midpoint is whole too.  None is a record    *)
(* with isNone set, like the route finder's None.                          *)
(***************************************************************************)
POPULAR_LOCATIONS == {<<2, 6>>, <<0, 0>>, <<10, 6>>}

Union_Station == <<2, 6>>

CN_Tower == <<0, 0>>

GeoNone == [isNone |-> TRUE, waypoints |-> <<>>]

MidNone == [isNone |-> TRUE, lat |-> 0, lon |-> 0]

SessionDefaults ==
    [start_lat |-> Union_Station[1], start_lon |-> Union_Station[2],
     end_lat |-> CN_Tower[1], end_lon |-> CN_Tower[2],
     route_geojson |-> GeoNone,
     route_midpoint |-> MidNone,
     route_exists |-> FALSE]

AppIdle == session_state = SessionDefaults

ScorerIdle ==
    /\ risk_scorer = RiskScorer(MaxClusters)
    /\ features_df = <<>>
    /\ proba = {}
    /\ AppIdle

BuildIdle ==
    /\ locations_df = <<>>
    /\ risk_scores = <<>>
    /\ max_connection_distance = 0

Init ==
    /\ graph \in RouteGraphs
    /\ startArg \in QueryIds
    /\ endArg \in QueryIds
    /\ pathArg = PathNone
    /\ last = NoCall
    /\ BuildIdle
    /\ ScorerIdle

Next ==
    \/ FindSafestRoute
    \/ FindShortestRoute
    \/ GetRouteInfoOfResult

Spec == Init /\ [][Next]_vars

(***************************************************************************)
(* Inputs of get_route_info: None, or up to MaxPathLen ids, stale or       *)
(* unknown ones included, over graphs of up to two edges whose `distance`  *)
(* and `risk` vary independently.                                          *)
(***************************************************************************)
PathArgs ==
    {PathNone} \cup
    {PathOf(p) : p \in UNION {[1..n -> QueryIds] : n \in 0..MaxPathLen}}

InfoEdgeAttrs == [weight : {1}, distance : {1, 2}, risk : {0, 1}]

InfoGraphs ==
    {GraphOf(f) : f \in UNION {[E -> InfoEdgeAttrs] : E \in EdgeSets(2)}}

InitInfo ==
    /\ graph \in InfoGraphs
    /\ startArg = 1
    /\ endArg = 1
    /\ pathArg \in PathArgs
    /\ last = NoCall
    /\ BuildIdle
    /\ ScorerIdle

NextInfo == GetRouteInfo

SpecInfo == InitInfo /\ [][NextInfo]_vars

(***************************************************************************)
(* What the routing claims are measured against: the walks of the graph,   *)
(* enumerated outright (no search), and their summed attribute.            *)
(***************************************************************************)
\* the walks from s to e with at most as many nodes as the graph has; with
\* non-negative costs a cheapest walk never needs more
Walks(G, s, e) ==
    {p \in UNION {[1..n -> GraphNodes(G)] : n \in 1..Cardinality(GraphNodes(G))} :
        /\ p[1] = s
        /\ p[Len(p)] = e
        /\ \A i \in 1..(Len(p) - 1) : HasEdge(G, p[i], p[i + 1])}

RECURSIVE WalkCost(_, _, _)
WalkCost(G, p, attr) ==
    IF Len(p) < 2 THEN 0
    ELSE EdgeData(G, p[1], p[2])[attr] + WalkCost(G, Tail(p), attr)

Connected(G, s, e) == Walks(G, s, e) # {}

IsCheapest(G, p, s, e, attr) ==
    /\ p \in Walks(G, s, e)
    /\ \A q \in Walks(G, s, e) : WalkCost(G, p, attr) <= WalkCost(G, q, attr)

BothInGraph == startArg \in GraphNodes(graph) /\ endArg \in GraphNodes(graph)

\* C1: whenever find_safest_route is called on two nodes of one connected
\* component (edge weights non-negative), it returns a path from start to
\* end whose summed `weight` is minimal among all paths from start to end.
C1_SafestIsMinWeight ==
    (/\ last.op = "find_safest_route"
     /\ BothInGraph
     /\ Connected(graph, startArg, endArg))
    => /\ last.ret.kind = "path"
       /\ IsCheapest(graph, last.ret.path, startArg, endArg, "weight")

\* the minimum was a real choice: the direct edge exists and a longer route
\* through other nodes was returned because it is strictly cheaper
C1_Witness ==
    /\ last.op = "find_safest_route"
    /\ last.ret.kind = "path"
    /\ Len(last.ret.path) = 4
    /\ HasEdge(graph, startArg, endArg)
    /\ WalkCost(graph, last.ret.path, "weight")
         < EdgeData(graph, startArg, endArg).weight

\* the graph with every edge's `weight` replaced by its `distance`
DistanceAsWeight(G) ==
    [G EXCEPT !.edge = [k \in DOMAIN G.edge |->
                           [G.edge[k] EXCEPT !.weight = G.edge[k].distance]]]

\* C2: whenever find_shortest_route is called on two nodes of one connected
\* component, it returns a path from start to end whose summed `distance`
\* is minimal, and that path is the one find_safest_route's search returns
\* when `distance` stands in for `weight`.
C2_ShortestIsMinDistance ==
    (/\ last.op = "find_shortest_route"
     /\ BothInGraph
     /\ Connected(graph, startArg, endArg))
    => /\ last.ret.kind = "path"
       /\ IsCheapest(graph, last.ret.path, startArg, endArg, "distance")
       /\ last.ret = find_safest_route(DistanceAsWeight(graph), startArg, endArg)

\* the shortest route goes round although the direct edge exists, and it is
\* not a cheapest route by `weight`
C2_Witness ==
    /\ last.op = "find_shortest_route"
    /\ last.ret.kind = "path"
    /\ Len(last.ret.path) >= 3
    /\ HasEdge(graph, startArg, endArg)
    /\ WalkCost(graph, last.ret.path, "distance")
         < EdgeData(graph, startArg, endArg).distance
    /\ ~IsCheapest(graph, last.ret.path, startArg, endArg, "weight")

NodeNotFound(r) ==
    /\ r.kind = "ValueError"
    /\ r.msg \in {"Start node not found in graph", "End node not found in graph"}
    /\ r.path = <<>>

\* C3: find_safest_route and find_shortest_route raise the node-not-found
\* error whenever start or end is not a node of the graph: no path comes
\* back (none through a substituted node either), and the error is the
\* validation's own, not one a search would raise.
C3_MissingNodeRaises ==
    (/\ last.op \in {"find_safest_route", "find_shortest_route"}
     /\ ~BothInGraph)
    => NodeNotFound(last.ret)

C3_Witness ==
    /\ last.op = "find_shortest_route"
    /\ startArg \in GraphNodes(graph)
    /\ endArg \notin GraphNodes(graph)
    /\ graph.adj[startArg] # <<>>
    /\ NodeNotFound(last.ret)

\* C4: find_safest_route on two nodes of different connected components
\* returns None and raises nothing, and get_route_info of that None result
\* is all zero.
C4_DisconnectedIsNone ==
    /\ (/\ last.op = "find_safest_route"
        /\ BothInGraph
        /\ ~Connected(graph, startArg, endArg))
       => last.ret = RetNone
    /\ (/\ last.op = "get_route_info"
        /\ last.via = "find_safest_route"
        /\ BothInGraph
        /\ ~Connected(graph, startArg, endArg))
       => /\ last.arg = PathNone
          /\ last.info.total_distance = 0
          /\ last.info.total_risk_score = 0
          /\ last.info.avg_risk_score.num = 0
          /\ last.info.num_segments = 0

\* both ends have neighbours, but in different components; the statistics
\* of the None result have been taken
C4_Witness ==
    /\ last.op = "get_route_info"
    /\ last.via = "find_safest_route"
    /\ BothInGraph
    /\ graph.adj[startArg] # <<>>
    /\ graph.adj[endArg] # <<>>
    /\ ~Connected(graph, startArg, endArg)
    /\ last.arg = PathNone
    /\ last.info = ZeroInfo

\* the sum of f over a finite set of indices
RECURSIVE SumOver(_, _)
SumOver(S, f) ==
    IF S = {} THEN 0
    ELSE LET i == CHOOSE x \in S : TRUE
         IN  f[i] + SumOver(S \ {i}, f)

\* the segments of a path that are edges of the graph
EdgeSegments(G, p) == {i \in 1..(Len(p) - 1) : HasEdge(G, p[i], p[i + 1])}

\* C5: get_route_info returns total_distance = 0, total_risk_score = 0,
\* avg_risk_score = 0 and num_segments = 0 for every path of fewer than two
\* nodes: None, the empty list, and any one-node list (the route [start]
\* of a start = end query among them).
C5_ShortPathAllZero ==
    (/\ last.op = "get_route_info"
     /\ (last.arg.isNone \/ Len(last.arg.nodes) < 2))
    => /\ last.info.total_distance = 0
       /\ last.info.total_risk_score = 0
       /\ last.info.avg_risk_score.num = 0
       /\ last.info.avg_risk_score.den # 0
       /\ last.info.num_segments = 0

\* get_route_info has run on a one-node path whose node has edges
C5_Witness ==
    /\ last.op = "get_route_info"
    /\ ~last.arg.isNone
    /\ Len(last.arg.nodes) = 1
    /\ last.arg.nodes[1] \in GraphNodes(graph)
    /\ graph.adj[last.arg.nodes[1]] # <<>>
    /\ last.info = ZeroInfo

\* C6: for a path of n >= 2 nodes get_route_info returns num_segments =
\* n - 1, total_distance and total_risk_score = the sums of `distance` and
\* `risk` over the consecutive pairs that are edges (a pair that is no edge
\* adds nothing and raises nothing), and avg_risk_score = total_risk_score
\* / (n - 1).
C6_RouteInfoSums ==
    (/\ last.op = "get_route_info"
     /\ ~last.arg.isNone
     /\ Len(last.arg.nodes) >= 2)
    => LET p    == last.arg.nodes
           segs == EdgeSegments(graph, p)
           dist == [i \in segs |-> EdgeData(graph, p[i], p[i + 1]).distance]
           risk == [i \in segs |-> EdgeData(graph, p[i], p[i + 1]).risk]
       IN  /\ last.info.num_segments = Len(p) - 1
           /\ last.info.total_distance = SumOver(segs, dist)
           /\ last.info.total_risk_score = SumOver(segs, risk)
           /\ last.info.avg_risk_score.num = last.info.total_risk_score
           /\ last.info.avg_risk_score.den = Len(p) - 1

\* a three-node path with one segment that is an edge of non-zero risk and
\* one segment that is no edge
C6_Witness ==
    /\ last.op = "get_route_info"
    /\ ~last.arg.isNone
    /\ Len(last.arg.nodes) = 3
    /\ Cardinality(EdgeSegments(graph, last.arg.nodes)) = 1
    /\ last.info.total_risk_score > 0
    /\ last.info.avg_risk_score.den = 2
    /\ last.info.total_distance > 0

KmPerDegree == 111

\* the latitudes and longitudes of the model, in degrees
Lats == {0, 60}
Lons == {0, 2}

\* 2 * np.cos(np.radians(lat)) at the latitudes of the model
Cos2(lat) == IF lat = 0 THEN 2 ELSE 1

\* np.sqrt, rounded down to an integer: the r in lo..hi-1 with r*r <= x < (r+1)^2
RECURSIVE SqrtBetween(_, _, _)
SqrtBetween(x, lo, hi) ==
    IF hi - lo <= 1 THEN lo
    ELSE LET mid == (lo + hi) \div 2
         IN  IF mid * mid <= x THEN SqrtBetween(x, mid, hi)
             ELSE SqrtBetween(x, lo, mid)

Sqrt(x) == SqrtBetween(x, 0, 46341)

\* the longitude difference is scaled by the cosine of the FIRST point's
\* latitude; lon_diff2 is twice lon_diff, so that it stays an integer
calculate_distance(lat1, lon1, lat2, lon2) ==
    LET lat_diff  == (lat2 - lat1) * KmPerDegree
        lon_diff2 == (lon2 - lon1) * KmPerDegree * Cos2(lat1)
    IN  Sqrt((4 * lat_diff * lat_diff + lon_diff2 * lon_diff2) \div 4)

\* `if distance < max_connection_distance`
Nearby_strict(distance, D) == distance < D

\* `if distance <= max_connection_distance`
Nearby(distance, D) == distance <= D

\* the first location's score only
EdgeRisk_firstOnly(ri, rj) == ri + ri

\* avg_risk = (risk_scores[i] + risk_scores[j]) / 2.0, as the numerator of
\* x / (2 * RiskScale)
EdgeRisk(ri, rj) == ri + rj

\* risk_scorer.calculate_edge_risk(node1_risk, node2_risk), in the same units
calculate_edge_risk(node1_risk, node2_risk) == node1_risk + node2_risk

\* the distance is squared
EdgeWeight_squared(distance, avg_risk) == distance * distance * (RiskScale + avg_risk)

\* the factor 1 is left out of the multiplier
EdgeWeight_noBase(distance, avg_risk) == distance * avg_risk

\* risk_multiplier = 1 + avg_risk * 2.0 is (RiskScale + avg_risk) / RiskScale;
\* edge_weight = distance * risk_multiplier, as the numerator of x / RiskScale
EdgeWeight(distance, avg_risk) == distance * (RiskScale + avg_risk)

\* the loop `for idx, row in locations_df.iterrows()` from row p on; idx is
\* the row's index label, and risk_scores[idx] fails when it is out of range
RECURSIVE AddNodes(_, _, _, _)
AddNodes(G, df, scores, p) ==
    IF p > Len(df) THEN [kind |-> "graph", graph |-> G]
    ELSE IF (df[p].idx + 1) \notin DOMAIN scores
    THEN [kind |-> "IndexError", graph |-> G]
    ELSE AddNodes(AddNode(G, df[p].location_id,
                          [latitude   |-> df[p].latitude,
                           longitude  |-> df[p].longitude,
                           risk_score |-> scores[df[p].idx + 1]]),
                  df, scores, p + 1)

\* the loops `for i in range(n): for j in range(i + 1, n)` from the pair of
\* positions (i, j) on; positions count from 1 here
RECURSIVE AddEdges(_, _, _, _, _, _)
AddEdges(G, df, scores, D, i, j) ==
    IF i > Len(df) THEN G
    ELSE IF j > Len(df) THEN AddEdges(G, df, scores, D, i + 1, i + 2)
    ELSE LET loc1     == df[i]
             loc2     == df[j]
             distance == calculate_distance(loc1.latitude, loc1.longitude,
                                            loc2.latitude, loc2.longitude)
             avg_risk == EdgeRisk(scores[i], scores[j])
             G1 == IF Nearby(distance, D)
                   THEN AddEdge(G, loc1.location_id, loc2.location_id,
                                [weight   |-> EdgeWeight(distance, avg_risk),
                                 distance |-> distance,
                                 risk     |-> avg_risk])
                   ELSE G
         IN  AddEdges(G1, df, scores, D, i, j + 1)

build_graph(df, scores, D) ==
    LET r == AddNodes(EmptyGraph, df, scores, 1)
    IN  IF r.kind = "graph"
        THEN [kind |-> "graph", graph |-> AddEdges(r.graph, df, scores, D, 1, 2)]
        ELSE r

\* graph = build_graph(locations_df, risk_scores, max_connection_distance),
\* called once on the inputs (demo.py, step 4)
BuildGraph ==
    /\ last.op = "none"
    /\ LET r == build_graph(locations_df, risk_scores, max_connection_distance)
       IN  /\ graph' = IF r.kind = "graph" THEN r.graph ELSE graph
           /\ last' = [NoCall EXCEPT !.op = "build_graph", !.ret.kind = r.kind]
    /\ UNCHANGED <<startArg, endArg, pathArg, buildVars, scorerVars, appVars>>

(***************************************************************************)
(* Inputs of build_graph: up to MaxLocations rows at the points of the     *)
(* model (two rows may be at one point), one risk score per row.  A row    *)
(* has a location id, all ids different, and an index label; both count    *)
(* from 0 in table order ("range", as generate_sample_data makes them),    *)
(* against it ("reversed"), or from 1 ("shifted").                         *)
(***************************************************************************)
Label(scheme, p, n) ==
    CASE scheme = "range"    -> p - 1
      [] scheme = "reversed" -> n - p
      [] scheme = "shifted"  -> p

Table(lat, lon, idScheme, idxScheme) ==
    [p \in DOMAIN lat |->
        [idx         |-> Label(idxScheme, p, Len(lat)),
         location_id |-> Label(idScheme, p, Len(lat)),
         latitude    |-> lat[p],
         longitude   |-> lon[p]]]

\* the tables of load_data(): ids and index labels 0..n-1
IdSchemes == {"range"}
IdxSchemes == {"range"}

\* max_connection_distance, in km: only coincident points; points 2 degrees
\* of longitude apart at latitude 60; points 60 degrees of latitude apart
MaxDistances == {0, 111, 6661}

InitBuild ==
    /\ graph = EmptyGraph
    /\ startArg = 0
    /\ endArg = 0
    /\ pathArg = PathNone
    /\ last = NoCall
    /\ \E n \in 0..MaxLocations :
          /\ \E lat \in [1..n -> Lats], lon \in [1..n -> Lons],
                ids \in IdSchemes, idxs \in IdxSchemes :
                locations_df = Table(lat, lon, ids, idxs)
          /\ risk_scores \in [1..n -> 0..RiskScale]
    /\ max_connection_distance \in MaxDistances
    /\ ScorerIdle

NextBuild == BuildGraph

SpecBuild == InitBuild /\ [][NextBuild]_vars

Built == last.op = "build_graph" /\ last.ret.kind = "graph"

Rows == DOMAIN locations_df

RowDistance(i, j) ==
    calculate_distance(locations_df[i].latitude, locations_df[i].longitude,
                       locations_df[j].latitude, locations_df[j].longitude)

RowEdge(i, j) == {locations_df[i].location_id, locations_df[j].location_id}

\* C8: in the graph build_graph returns, every edge has `distance` <=
\* max_connection_distance, and every pair of locations whose computed
\* distance (that of the earlier row to the later) is <=
\* max_connection_distance is joined by an edge carrying that distance;
\* there are no other edges.
C8_EdgesWithinMaxDistance ==
    Built =>
      /\ \A k \in DOMAIN graph.edge :
            graph.edge[k].distance <= max_connection_distance
      /\ \A i, j \in Rows :
            (i < j /\ RowDistance(i, j) <= max_connection_distance)
            => /\ RowEdge(i, j) \in DOMAIN graph.edge
               /\ graph.edge[RowEdge(i, j)].distance = RowDistance(i, j)
      /\ \A k \in DOMAIN graph.edge :
            \E i, j \in Rows : i < j /\ k = RowEdge(i, j)

\* a pair exactly max_connection_distance apart is joined, a farther pair
\* is not
C8_Witness ==
    /\ Built
    /\ \E k \in DOMAIN graph.edge :
          /\ graph.edge[k].distance > 0
          /\ graph.edge[k].distance = max_connection_distance
    /\ \E i, j \in Rows : i < j /\ RowEdge(i, j) \notin DOMAIN graph.edge

\* C9: every edge of the built graph has weight = distance x (1 + 2 x risk)
\* and, the risk scores being in [0, 1], 0 <= distance <= weight <=
\* 3 x distance.  (risk is in units of 1/(2 RiskScale), weight of
\* 1/RiskScale.)
C9_WeightFormula ==
    Built =>
      \A k \in DOMAIN graph.edge :
        LET e == graph.edge[k]
        IN  /\ 2 * e.weight = e.distance * (2 * RiskScale + 2 * e.risk)
            /\ 0 <= e.distance
            /\ e.distance * RiskScale <= e.weight
            /\ e.weight <= 3 * e.distance * RiskScale

\* an edge of positive length whose weight is strictly between its
\* distance and three times its distance, and one at each end of the range
C9_Witness ==
    /\ Built
    /\ \E k \in DOMAIN graph.edge :
          /\ graph.edge[k].distance > 0
          /\ graph.edge[k].distance * RiskScale < graph.edge[k].weight
          /\ graph.edge[k].weight < 3 * graph.edge[k].distance * RiskScale
    /\ \E k \in DOMAIN graph.edge :
          /\ graph.edge[k].distance > 0
          /\ graph.edge[k].weight = 3 * graph.edge[k].distance * RiskScale

\* C10: the attributes of the edge between two locations are those computed
\* with the two locations in either order: the same risk, distance and
\* weight whichever of the two is passed first to calculate_distance.
C10_EdgeSymmetric ==
    Built =>
      \A i, j \in Rows :
        (i # j /\ RowEdge(i, j) \in DOMAIN graph.edge)
        => LET e == graph.edge[RowEdge(i, j)]
               r == EdgeRisk(risk_scores[i], risk_scores[j])
           IN  /\ e.risk = r
               /\ e.distance = RowDistance(i, j)
               /\ e.weight = EdgeWeight(RowDistance(i, j), r)

(***************************************************************************)
(* The calls on a RiskScorer.  A scorer of 1..MaxClusters clusters is      *)
(* fitted on one feature table of up to MaxRows rows, any number of times, *)
(* and asked for the risk scores of that table or of any table of up to    *)
(* MaxPredictRows rows, fitted or not.  The rows are those of the model:   *)
(* every lighting score of the grid, no incident or two.                   *)
(***************************************************************************)
FeatureRows ==
    [lighting_score : 0..LightScale, total_incidents : {0, 2},
     high_severity_count : {0}, recent_incidents : {0}]

FeatureTables(n) == UNION {[1..m -> FeatureRows] : m \in 0..n}

\* the tables fit is called on, their rows in order of lighting score and
\* then of incidents (the row order permutes the labels and nothing else)
RowKey(row) == row.lighting_score * 3 + row.total_incidents

TrainingTables ==
    {t \in FeatureTables(MaxRows) :
        \A i, j \in DOMAIN t : i < j => RowKey(t[i]) <= RowKey(t[j])}

\* risk_scorer.fit(features_df)
Fit ==
    /\ last.op # "predict_risk_scores"
    /\ LET X == Values(features_df)
       IN  \E km \in KMeans_fit_predict(StandardScaler_fit(X), X, risk_scorer.n_clusters) :
              LET r == fit(risk_scorer, features_df, km)
              IN  /\ risk_scorer' = r.self
                  /\ last' = [NoCall EXCEPT !.op = "fit", !.ret = r.ret]
    /\ proba' = {}
    /\ UNCHANGED <<graph, startArg, endArg, pathArg, buildVars, features_df, appVars>>

\* what logistic.predict_proba(X_scaled)[:, 1] may come to on the rows of df:
\* one probability per row, the one already given for a row given before
PredictProba(df) ==
    {risk_probs \in [DOMAIN df -> 0..ProbScale] :
        /\ \A i, j \in DOMAIN df : df[i] = df[j] => risk_probs[i] = risk_probs[j]
        /\ \A i \in DOMAIN df : \A e \in proba : e[1] = df[i] => e[2] = risk_probs[i]}

\* one call risk_scorer.predict_risk_scores(df), nth in a row
PredictCall(df, nth) ==
    \E risk_probs \in PredictProba(df) :
       LET ret == predict_risk_scores(risk_scorer, df, risk_probs)
       IN  /\ last' = [NoCall EXCEPT
                         !.op = "predict_risk_scores", !.arg = df, !.ret = ret,
                         !.nth = nth]
           /\ proba' = IF ret.kind = "scores"
                       THEN proba \cup {<<df[i], risk_probs[i]>> : i \in DOMAIN df}
                       ELSE proba
           /\ UNCHANGED <<graph, startArg, endArg, pathArg, buildVars,
                          risk_scorer, features_df, appVars>>

\* risk_scorer.predict_risk_scores(df)
PredictRiskScores ==
    /\ last.op # "predict_risk_scores"
    /\ \E df \in FeatureTables(MaxPredictRows) \cup {features_df} : PredictCall(df, 1)

InitRisk ==
    /\ graph = EmptyGraph
    /\ startArg = 0
    /\ endArg = 0
    /\ pathArg = PathNone
    /\ last = NoCall
    /\ BuildIdle
    /\ risk_scorer \in {RiskScorer(K) : K \in 1..MaxClusters}
    /\ features_df \in TrainingTables
    /\ proba = {}
    /\ AppIdle

NextRisk ==
    \/ Fit
    \/ PredictRiskScores

SpecRisk == InitRisk /\ [][NextRisk]_vars

Fitted == risk_scorer.is_fitted

Predicted == last.op = "predict_risk_scores" /\ last.ret.kind = "scores"

\* C11: every risk score predict_risk_scores returns, whatever the number
\* of clusters of the fitted model and whatever the feature row, is a number
\* (not NaN) with 0 <= score <= 1.
C11_ScoreInUnitInterval ==
    Predicted =>
      \A i \in DOMAIN last.ret.scores :
         LET score == last.ret.scores[i]
         IN  /\ score.den > 0
             /\ 0 <= score.num
             /\ score.num <= score.den

\* scores are returned at both ends of the interval and inside it, the
\* upper end by clipping a larger sum
C11_Witness ==
    /\ Predicted
    /\ \E i, j \in DOMAIN last.ret.scores :
          /\ last.ret.scores[i].num = last.ret.scores[i].den
          /\ last.arg[i].lighting_score < LightScale
          /\ 0 < last.ret.scores[j].num
          /\ last.ret.scores[j].num < last.ret.scores[j].den
    /\ risk_scorer.n_clusters > 2

\* C13: predict_risk_scores called on a scorer that is not fitted raises
\* the not-fitted error and leaves it not fitted; a scorer starts not
\* fitted, becomes fitted only by a fit call that returns, and a fit call
\* that raises part-way leaves is_fitted as it was; scores are returned
\* only by a fitted scorer.
C13_NotFittedUntilFitCompletes ==
    /\ [](last.op = "none" => ~Fitted)
    /\ [][/\ (last'.op = "predict_risk_scores" /\ ~Fitted)
              => /\ last'.ret = Raise("ValueError",
                                      "RiskScorer must be fitted before prediction")
                 /\ ~Fitted'
          /\ (last'.op = "predict_risk_scores" /\ last'.ret.kind = "scores")
              => Fitted
          /\ (~Fitted /\ Fitted')
              => (last'.op = "fit" /\ last'.ret = ReturnSelf)
          /\ (last'.op = "fit" /\ last'.ret # ReturnSelf)
              => (Fitted' <=> Fitted)]_vars

\* a prediction has failed on a scorer whose fit raised in the last of its
\* three steps, the scaler and the clustering already fitted
C13_Witness ==
    /\ last.op = "predict_risk_scores"
    /\ last.ret.kind = "ValueError"
    /\ ~Fitted
    /\ risk_scorer.scaler.fitted
    /\ risk_scorer.kmeans.fitted
    /\ ~risk_scorer.logistic.fitted
    /\ risk_scorer.n_clusters > 1

\* C14: of two rows scored by one call of a fitted model that have the
\* same incident counts, the one with the higher lighting_score does not
\* get the higher risk score.
C14_LightingNeverRaisesRisk ==
    Predicted =>
      \A i, j \in DOMAIN last.arg :
         (/\ last.arg[i].total_incidents = last.arg[j].total_incidents
          /\ last.arg[i].high_severity_count = last.arg[j].high_severity_count
          /\ last.arg[i].recent_incidents = last.arg[j].recent_incidents
          /\ last.arg[i].lighting_score <= last.arg[j].lighting_score)
         => last.ret.scores[i].num >= last.ret.scores[j].num

IdenticalRows ==
    /\ Len(features_df) >= risk_scorer.n_clusters
    /\ Cardinality(Range(features_df)) = 1

\* C15: on a feature table whose rows are all identical (and at least as
\* many as the clusters), fit returns, and predict_risk_scores on the same
\* table then returns the same score for every row.
C15_IdenticalRowsScoreEqually ==
    IdenticalRows =>
      /\ last.op = "fit" => last.ret = ReturnSelf
      /\ (last.op = "predict_risk_scores" /\ last.arg = features_df /\ Fitted)
         => /\ Predicted
            /\ \A i, j \in DOMAIN last.ret.scores :
                  last.ret.scores[i] = last.ret.scores[j]

ClusterIds == 0..(risk_scorer.n_clusters - 1)

\* the rows fit put in a cluster, and their total_incidents added up
Members(k) == {i \in DOMAIN features_df : risk_scorer.kmeans.labels_[i] = k}

RECURSIVE Incidents(_)
Incidents(rows) ==
    IF rows = {} THEN 0
    ELSE LET i == CHOOSE i \in rows : TRUE
         IN  features_df[i].total_incidents + Incidents(rows \ {i})

\* the mean total_incidents of cluster a is less than that of cluster b
MeanLess(a, b) ==
    Incidents(Members(a)) * Cardinality(Members(b))
        < Incidents(Members(b)) * Cardinality(Members(a))

\* C20: once fit has ranked the clusters, cluster_to_risk maps the K
\* cluster ids one-to-one onto the ranks 0..K-1, a cluster of lower mean
\* total_incidents has the lower rank, and the label the classifier is
\* fitted on is 1 for exactly the rows whose cluster has rank K-1.
C20_ClusterRanks ==
    (last.op = "fit" /\ risk_scorer.kmeans.fitted) =>
      LET rank == risk_scorer.cluster_to_risk
      IN  /\ DOMAIN rank = ClusterIds
          /\ {rank[k] : k \in ClusterIds} = ClusterIds
          /\ \A a, b \in ClusterIds : rank[a] = rank[b] => a = b
          /\ \A a, b \in ClusterIds :
                (Members(a) # {} /\ Members(b) # {} /\ MeanLess(a, b))
                => rank[a] < rank[b]
          /\ DOMAIN risk_scorer.logistic.y = DOMAIN features_df
          /\ \A i \in DOMAIN features_df :
                risk_scorer.logistic.y[i] =
                   IF rank[risk_scorer.kmeans.labels_[i]] = risk_scorer.n_clusters - 1
                   THEN 1 ELSE 0

\* fit has returned with three clusters, not all of one mean, whose ids are
\* not in the order of their means, two of them tying
C20_Witness ==
    /\ last.op = "fit"
    /\ last.ret = ReturnSelf
    /\ risk_scorer.n_clusters = 3
    /\ \E a, b \in ClusterIds : a > b /\ MeanLess(a, b)
    /\ \E a, b \in ClusterIds : a # b /\ ~MeanLess(a, b) /\ ~MeanLess(b, a)

(***************************************************************************)
(* Risk categories.  The three places that sort risk scores into Low,      *)
(* Medium and High are applied to an array of scores given in hundredths:  *)
(* every score 0.00 .. 1.00 alone, and every pair of scores at and next to *)
(* the thresholds.  The location table has one row per score.              *)
(***************************************************************************)
Hundredths(h) == [num |-> h, den |-> 100]

CategoryScores == {Hundredths(h) : h \in 0..100}

ThresholdScores == {Hundredths(h) : h \in {0, 32, 33, 34, 66, 67, 68, 100}}

ScoreArrays == [1..1 -> CategoryScores] \cup [1..2 -> ThresholdScores]

\* risk_scorer.get_risk_category(risk_scores[node]) for every location
\* (app.py asks for the start and the end location's)
GetRiskCategory ==
    /\ last' = [NoCall EXCEPT
                   !.op = "get_risk_category", !.arg = risk_scores,
                   !.ret = [i \in DOMAIN risk_scores |->
                              get_risk_category(risk_scores[i])]]
    /\ UNCHANGED <<graph, startArg, endArg, pathArg, buildVars, scorerVars, appVars>>

\* add_risk_heatmap(folium_map, locations_df, risk_scores)
AddRiskHeatmap ==
    /\ last' = [NoCall EXCEPT
                   !.op = "add_risk_heatmap", !.arg = risk_scores,
                   !.ret = add_risk_heatmap(locations_df, risk_scores)]
    /\ UNCHANGED <<graph, startArg, endArg, pathArg, buildVars, scorerVars, appVars>>

\* demo.py, "Show risk distribution"
RiskDistribution ==
    /\ last' = [NoCall EXCEPT
                   !.op = "risk_distribution", !.arg = risk_scores,
                   !.ret = risk_distribution(risk_scores)]
    /\ UNCHANGED <<graph, startArg, endArg, pathArg, buildVars, scorerVars, appVars>>

InitCategory ==
    /\ graph = EmptyGraph
    /\ startArg = 0
    /\ endArg = 0
    /\ pathArg = PathNone
    /\ last = NoCall
    /\ risk_scores \in ScoreArrays
    /\ locations_df = Table([p \in DOMAIN risk_scores |-> 0],
                            [p \in DOMAIN risk_scores |-> 0], "range", "range")
    /\ max_connection_distance = 0
    /\ ScorerIdle

NextCategory ==
    \/ GetRiskCategory
    \/ AddRiskHeatmap
    \/ RiskDistribution

SpecCategory == InitCategory /\ [][NextCategory]_vars

\* the category the thresholds give a score [num, den]
IsLow(score)    == 100 * score.num < 33 * score.den
IsMedium(score) == 100 * score.num >= 33 * score.den /\ 100 * score.num < 67 * score.den
IsHigh(score)   == 100 * score.num >= 67 * score.den

Count(scores, P(_)) == Cardinality({i \in DOMAIN scores : P(scores[i])})

\* C12: get_risk_category, the heat map and the demo's risk distribution
\* all put a score below 0.33 in Low, a score from 0.33 up to but not
\* including 0.67 in Medium and a score from 0.67 on in High; every score is
\* in exactly one of the three.
C12_FixedThresholds ==
    /\ \A i \in DOMAIN risk_scores :
          LET s == risk_scores[i]
          IN  Cardinality({c \in {"Low", "Medium", "High"} :
                              \/ (c = "Low" /\ IsLow(s))
                              \/ (c = "Medium" /\ IsMedium(s))
                              \/ (c = "High" /\ IsHigh(s))}) = 1
    /\ last.op = "get_risk_category" =>
          \A i \in DOMAIN risk_scores :
             LET s == risk_scores[i]
             IN  /\ last.ret[i] = "Low" <=> IsLow(s)
                 /\ last.ret[i] = "Medium" <=> IsMedium(s)
                 /\ last.ret[i] = "High" <=> IsHigh(s)
    /\ last.op = "add_risk_heatmap" =>
          \A i \in DOMAIN risk_scores :
             LET s == risk_scores[i]
             IN  /\ last.ret[i].risk_label = "Low Risk" <=> IsLow(s)
                 /\ last.ret[i].risk_label = "Medium Risk" <=> IsMedium(s)
                 /\ last.ret[i].risk_label = "High Risk" <=> IsHigh(s)
    /\ last.op = "risk_distribution" =>
          /\ last.ret.low_risk = Count(risk_scores, IsLow)
          /\ last.ret.med_risk = Count(risk_scores, IsMedium)
          /\ last.ret.high_risk = Count(risk_scores, IsHigh)
          /\ last.ret.low_risk + last.ret.med_risk + last.ret.high_risk
                = Len(risk_scores)

\* the scores exactly 0.33 and exactly 0.67 have been categorised
C12_Witness ==
    /\ last.op = "get_risk_category"
    /\ risk_scores = <<Hundredths(33), Hundredths(67)>>
    /\ last.ret = <<"Medium", "High">>

(***************************************************************************)
(* Routes on a built graph: build_graph on a location table, then          *)
(* RouteFinder(graph).find_safest_route and find_shortest_route between    *)
(* two ids (demo.py, steps 4 and 5).  The locations are three points       *)
(* evenly spaced along the equator and one point off that line; every      *)
(* location's risk score is the lowest or the highest.                     *)
(***************************************************************************)
TripPoints == {<<0, 0>>, <<0, 2>>, <<0, 4>>, <<60, 0>>}

\* max_connection_distance, in km: neighbours on the line only; all points
\* of the line; all points
TripDistances == {222, 444, 7000}

TripScores == {0, RiskScale}

FindSafestRouteBuilt ==
    /\ last.op # "none"
    /\ FindSafestRoute

FindShortestRouteBuilt ==
    /\ last.op # "none"
    /\ FindShortestRoute

InitTrip ==
    /\ graph = EmptyGraph
    /\ pathArg = PathNone
    /\ last = NoCall
    /\ \E n \in 0..MaxLocations :
          /\ \E pts \in [1..n -> TripPoints] :
                locations_df = Table([p \in 1..n |-> pts[p][1]],
                                     [p \in 1..n |-> pts[p][2]], "range", "range")
          /\ risk_scores \in [1..n -> TripScores]
    /\ max_connection_distance \in TripDistances
    /\ startArg \in 0..(MaxLocations - 1)
    /\ endArg \in 0..(MaxLocations - 1)
    /\ ScorerIdle

NextTrip ==
    \/ BuildGraph
    \/ FindSafestRouteBuilt
    \/ FindShortestRouteBuilt

SpecTrip == InitTrip /\ [][NextTrip]_vars

UniformRisk == \A i, j \in DOMAIN risk_scores : risk_scores[i] = risk_scores[j]

\* three locations evenly spaced on a line, in table order, all pairs joined
ThreeInLine ==
    /\ Len(locations_df) = 3
    /\ \A p \in 1..3 : locations_df[p].latitude = 0
                       /\ locations_df[p].longitude = 2 * (p - 1)
    /\ Cardinality(DOMAIN graph.edge) = 3

\* C16: on a graph built from locations that all have the same risk score,
\* find_safest_route and find_shortest_route return the same result for
\* the same two ids.
C16_UniformRiskSameRoute ==
    (UniformRisk /\ last.op \in {"find_safest_route", "find_shortest_route"})
    => /\ last.ret = find_safest_route(graph, last.start, last.end)
       /\ last.ret = find_shortest_route(graph, last.start, last.end)

\* the safest route between the ends of three locations in a line with
\* equal, non-zero risk has been found
C16_Witness ==
    /\ ThreeInLine
    /\ UniformRisk
    /\ risk_scores[1] > 0
    /\ last.op = "find_safest_route"
    /\ last.start = 0
    /\ last.end = 2
    /\ last.ret.kind = "path"

\* C17: the route find_shortest_route returns on the built graph is a
\* shortest one by `distance`, and it is the route find_shortest_route
\* returns on the graph built from the same locations with any other risk
\* scores.
C17_ShortestIgnoresRisk ==
    last.op = "find_shortest_route" =>
      /\ last.ret.kind = "path" =>
            IsCheapest(graph, last.ret.path, last.start, last.end, "distance")
      /\ \A scores \in [DOMAIN risk_scores -> TripScores] :
            LET other == build_graph(locations_df, scores, max_connection_distance)
            IN  find_shortest_route(other.graph, last.start, last.end) = last.ret

\* three locations in a line, only the middle one of high risk: the
\* shortest route between the ends has been found, and the safest route
\* between them is the direct edge, the two-hop path being cheaper for no
\* one
C17_Witness ==
    /\ ThreeInLine
    /\ risk_scores = <<0, RiskScale, 0>>
    /\ last.op = "find_shortest_route"
    /\ last.start = 0
    /\ last.end = 2
    /\ last.ret.kind = "path"
    /\ find_safest_route(graph, 0, 2) = RetPath(<<0, 2>>)
    /\ WalkCost(graph, <<0, 1, 2>>, "weight") > WalkCost(graph, <<0, 2>>, "weight")
    /\ WalkCost(graph, <<0, 1, 2>>, "distance") = WalkCost(graph, <<0, 2>>, "distance")

\* C18: every edge of the built graph has `risk` equal to the mean of the
\* risk scores of the two locations it joins (the scores passed in, which
\* are the nodes' risk_score attributes); it is in [0, 1] and between the
\* two scores.  (risk is in units of 1/(2 RiskScale), a score of
\* 1/RiskScale.)
C18_EdgeRiskIsMean ==
    Built =>
      \A i, j \in Rows :
        (i < j /\ RowEdge(i, j) \in DOMAIN graph.edge)
        => LET e  == graph.edge[RowEdge(i, j)]
               ri == risk_scores[i]
               rj == risk_scores[j]
           IN  /\ e.risk = ri + rj
               /\ e.risk = calculate_edge_risk(
                               graph.node[locations_df[i].location_id].risk_score,
                               graph.node[locations_df[j].location_id].risk_score)
               /\ 0 <= e.risk
               /\ e.risk <= 2 * RiskScale
               /\ 2 * Min(ri, rj) <= e.risk
               /\ e.risk <= 2 * (ri + rj - Min(ri, rj))

\* an edge joins two locations of different scores, its risk strictly
\* between them
C18_Witness ==
    /\ Built
    /\ \E i, j \in Rows :
          /\ i < j
          /\ RowEdge(i, j) \in DOMAIN graph.edge
          /\ risk_scores[i] < risk_scores[j]
          /\ 2 * risk_scores[i] < graph.edge[RowEdge(i, j)].risk
          /\ graph.edge[RowEdge(i, j)].risk < 2 * risk_scores[j]

\* C19: a path returned by find_safest_route or find_shortest_route has at
\* least one node, starts at start_node and ends at end_node, joins
\* consecutive nodes by edges of the graph and visits no node twice; for
\* start_node = end_node (a node of the graph) it is the path [start_node].
C19_RouteWellFormed ==
    last.op \in {"find_safest_route", "find_shortest_route"} =>
      /\ last.ret.kind = "path" =>
            LET p == last.ret.path
            IN  /\ Len(p) >= 1
                /\ p[1] = last.start
                /\ p[Len(p)] = last.end
                /\ \A i \in 1..(Len(p) - 1) : HasEdge(graph, p[i], p[i + 1])
                /\ \A i, j \in DOMAIN p : p[i] = p[j] => i = j
      /\ (last.start = last.end /\ last.start \in GraphNodes(graph))
            => last.ret = RetPath(<<last.start>>)

\* a route over three edges has been returned
C19_Witness ==
    /\ last.op \in {"find_safest_route", "find_shortest_route"}
    /\ last.ret.kind = "path"
    /\ Len(last.ret.path) = 4

(***************************************************************************)
(* Predictions in a row.  A scorer of 2..MaxClusters clusters is fitted on *)
(* a table of MaxRows different rows and then asked for risk scores up to  *)
(* MaxPredictions times in a row: first of any table, then of the table    *)
(* just scored or of one of its rows alone.                                *)
(***************************************************************************)
MaxPredictions == 2

\* risk_scorer.predict_risk_scores(df), called again
PredictRiskScoresAgain ==
    /\ last.op = "predict_risk_scores"
    /\ last.nth < MaxPredictions
    /\ \E df \in {last.arg} \cup {<<row>> : row \in Range(last.arg)} :
          PredictCall(df, last.nth + 1)

InitRepeat ==
    /\ graph = EmptyGraph
    /\ startArg = 0
    /\ endArg = 0
    /\ pathArg = PathNone
    /\ last = NoCall
    /\ BuildIdle
    /\ risk_scorer \in {RiskScorer(K) : K \in 2..MaxClusters}
    /\ features_df \in {t \in TrainingTables :
                          Len(t) = MaxRows /\ Cardinality(Range(t)) = MaxRows}
    /\ proba = {}
    /\ AppIdle

NextRepeat ==
    \/ Fit
    \/ PredictRiskScores
    \/ PredictRiskScoresAgain

SpecRepeat == InitRepeat /\ [][NextRepeat]_vars

\* the fitted parameters predict_risk_scores reads
FittedModel ==
    [scaler          |-> risk_scorer.scaler,
     cluster_centers |-> risk_scorer.kmeans.cluster_centers_,
     cluster_to_risk |-> risk_scorer.cluster_to_risk,
     logistic        |-> risk_scorer.logistic,
     is_fitted       |-> risk_scorer.is_fitted]

\* C21: predict_risk_scores leaves the scaler, the cluster centres, the
\* cluster ranks and the classifier as fit left them (the whole scorer, in
\* fact), and of two predictions in a row a row of both tables gets the
\* same score in both, whatever the other rows of the two tables; a table
\* predicted twice gets the same result twice.
C21_PredictLeavesModel ==
    [][last'.op = "predict_risk_scores" =>
         /\ FittedModel' = FittedModel
         /\ risk_scorer' = risk_scorer
         /\ last.op = "predict_risk_scores" =>
               /\ last'.arg = last.arg => last'.ret = last.ret
               /\ (last.ret.kind = "scores" /\ last'.ret.kind = "scores") =>
                     \A i \in DOMAIN last.arg : \A j \in DOMAIN last'.arg :
                        last.arg[i] = last'.arg[j]
                        => last.ret.scores[i] = last'.ret.scores[j]]_vars

\* a row scored among others has been scored again alone, with the same
\* score, by a scorer whose scaler would have been fitted differently on
\* that row alone
C21_Witness ==
    /\ last.op = "predict_risk_scores"
    /\ last.nth = 2
    /\ last.ret.kind = "scores"
    /\ Len(last.arg) = 1
    /\ Len(last.arg) < Len(features_df)
    /\ StandardScaler_fit(Values(last.arg)) # risk_scorer.scaler
    /\ \E e \in proba : e[1] # last.arg[1]

(***************************************************************************)
(* data_loader.py: prepare_location_features.  A location table of up to   *)
(* two locations and an incident table of up to MaxIncidents incidents,    *)
(* some of them at hours on either side of midnight and some at a location *)
(* that is not in the location table, are turned into a feature table for  *)
(* every query hour of the day.                                            *)
(***************************************************************************)
MaxIncidents == 2

time_window == 3

HoursOfDay == 0..23

IncidentHours == {0, 2, 4, 12, 20, 23}

LocationRows ==
    [location_id : {0, 1}, latitude : {0}, longitude : {0}, lighting_score : {0}]

LocationTables ==
    {t \in UNION {[1..m -> LocationRows] : m \in 0..2} :
        \A i, j \in DOMAIN t : t[i].location_id = t[j].location_id => i = j}

IncidentRows(k) ==
    [incident_id : {k}, location_id : {0, 1, 2}, hour : IncidentHours,
     crime_severity : {"low", "high"}]

IncidentTables ==
    UNION {{t \in [1..m -> UNION {IncidentRows(k) : k \in 1..m}] :
               \A k \in 1..m : t[k].incident_id = k} : m \in 0..MaxIncidents}

\* the rows of df that belong to the group of location_id = id
GroupOf(df, rows, id) == {k \in rows : df[k].location_id = id}

\* the keys of df.groupby('location_id') over the given rows
GroupKeys(df, rows) == {df[k].location_id : k \in rows}

\* stats[col] of the row of location_id = id after the left merge and
\* fillna(0)
MergedOrZero(stats, id, col) == IF id \in DOMAIN stats THEN stats[id][col] ELSE 0

\* prepare_location_features(locations_df, incidents_df, current_hour)
prepare_location_features(locs, incidents_df, current_hour) ==
    LET all == DOMAIN incidents_df
        crime_stats ==
            [id \in GroupKeys(incidents_df, all) |->
                [total_incidents |-> Cardinality(GroupOf(incidents_df, all, id)),
                 high_severity_count |->
                     Cardinality({k \in GroupOf(incidents_df, all, id) :
                                     incidents_df[k].crime_severity = "high"})]]
        time_filtered ==
            {k \in all : /\ incidents_df[k].hour >= current_hour - time_window
                         /\ incidents_df[k].hour <= current_hour + time_window}
        time_stats ==
            [id \in GroupKeys(incidents_df, time_filtered) |->
                [recent_incidents |->
                     Cardinality(GroupOf(incidents_df, time_filtered, id))]]
    IN  [i \in DOMAIN locs |->
            [location_id    |-> locs[i].location_id,
             latitude       |-> locs[i].latitude,
             longitude      |-> locs[i].longitude,
             lighting_score |-> locs[i].lighting_score,
             total_incidents |->
                 MergedOrZero(crime_stats, locs[i].location_id, "total_incidents"),
             high_severity_count |->
                 MergedOrZero(crime_stats, locs[i].location_id, "high_severity_count"),
             recent_incidents |->
                 MergedOrZero(time_stats, locs[i].location_id, "recent_incidents")]]

\* features_df = prepare_location_features(locations_df, incidents_df, hour)
PrepareLocationFeatures ==
    /\ last.op = "none"
    /\ \E locs \in LocationTables, incidents_df \in IncidentTables,
          current_hour \in HoursOfDay :
          LET ret == prepare_location_features(locs, incidents_df, current_hour)
          IN  /\ features_df' = ret
              /\ last' = [NoCall EXCEPT
                            !.op = "prepare_location_features",
                            !.arg = [locations_df |-> locs,
                                     incidents_df |-> incidents_df,
                                     current_hour |-> current_hour],
                            !.ret = ret]
    /\ UNCHANGED <<graph, startArg, endArg, pathArg, buildVars, risk_scorer, proba,
                   appVars>>

InitFeatures ==
    /\ graph = EmptyGraph
    /\ startArg = 0
    /\ endArg = 0
    /\ pathArg = PathNone
    /\ last = NoCall
    /\ BuildIdle
    /\ ScorerIdle

NextFeatures == PrepareLocationFeatures

SpecFeatures == InitFeatures /\ [][NextFeatures]_vars

\* the hours between two hours of the day, the shorter way round the clock
HoursApart(h1, h2) ==
    LET d == IF h1 >= h2 THEN h1 - h2 ELSE h2 - h1
    IN  IF d <= 24 - d THEN d ELSE 24 - d

\* C22: prepare_location_features returns one row per location, in which
\* the three counts are 0 for a location without incidents,
\* recent_incidents is the number of that location's incidents whose hour
\* is within 3 hours of the query hour (also across midnight), and
\* high_severity_count and recent_incidents are at most total_incidents.
C22_FeatureCounts ==
    last.op = "prepare_location_features" =>
      LET locs == last.arg.locations_df
          inc  == last.arg.incidents_df
          hour == last.arg.current_hour
          At(id) == {k \in DOMAIN inc : inc[k].location_id = id}
      IN  /\ DOMAIN last.ret = DOMAIN locs
          /\ \A i \in DOMAIN locs :
                LET row == last.ret[i]
                    id  == locs[i].location_id
                IN  /\ row.location_id = id
                    /\ At(id) = {} => /\ row.total_incidents = 0
                                      /\ row.high_severity_count = 0
                                      /\ row.recent_incidents = 0
                    /\ row.recent_incidents =
                          Cardinality({k \in At(id) :
                                          HoursApart(inc[k].hour, hour) <= time_window})
                    /\ row.high_severity_count <= row.total_incidents
                    /\ row.recent_incidents <= row.total_incidents

(***************************************************************************)
(* Nearest-node lookup: find_nearest_node of graph_builder.py on a graph   *)
(* whose nodes carry latitude and longitude, get_nearest_node of           *)
(* src/graph_builder.py on a graph whose nodes are (lat, lon) pairs.  The  *)
(* graphs have up to MaxNearNodes nodes at the points below, in any order  *)
(* of ids, and no edges (the lookup does not read them).                   *)
(***************************************************************************)
MaxNearNodes == 2

NearLats == {0, 2, 60, 62}
NearLons == {0, 3}

NearIds == 0..MaxNearNodes

\* G after G.add_node(ids[p], latitude=lat[p], longitude=lon[p]) for each p
RECURSIVE WithNodes(_, _, _, _, _)
WithNodes(G, ids, lat, lon, p) ==
    IF p > Len(ids) THEN G
    ELSE WithNodes(AddNode(G, ids[p], [latitude   |-> lat[p],
                                       longitude  |-> lon[p],
                                       risk_score |-> 0]),
                   ids, lat, lon, p + 1)

\* G after G.add_node((lat[p], lon[p])) for each p
RECURSIVE WithPoints(_, _, _, _)
WithPoints(G, lat, lon, p) ==
    IF p > Len(lat) THEN G
    ELSE WithPoints(AddNode(G, <<lat[p], lon[p]>>, <<>>), lat, lon, p + 1)

LocationGraphs ==
    UNION {{WithNodes(EmptyGraph, ids, lat, lon, 1) :
               ids \in {f \in [1..n -> NearIds] : \A i, j \in 1..n : f[i] = f[j] => i = j},
               lat \in [1..n -> NearLats], lon \in [1..n -> NearLons]} :
           n \in 0..MaxNearNodes}

PointGraphs ==
    UNION {{WithPoints(EmptyGraph, lat, lon, 1) :
               lat \in [1..n -> NearLats], lon \in [1..n -> NearLons]} :
           n \in 0..MaxNearNodes}

\* the nodes are (lat, lon) pairs without attributes
IsPointGraph(G) == \A n \in GraphNodes(G) : DOMAIN G.node[n] = {}

NodeNone == [kind |-> "None", node |-> 0]

NodeOf(n) == [kind |-> "node", node |-> n]

\* the loop `for node_id in G.nodes` of find_nearest_node from position p on,
\* best being [inf, min_distance, nearest_node]; inf stands for
\* min_distance = float('inf')
RECURSIVE NearestScan(_, _, _, _, _)
NearestScan(G, lat, lon, p, best) ==
    IF p > Len(G.order) THEN best.nearest_node
    ELSE LET node_id   == G.order[p]
             node_data == G.node[node_id]
             distance  == calculate_distance(lat, lon, node_data.latitude,
                                             node_data.longitude)
         IN  IF best.inf \/ distance < best.min_distance
             THEN NearestScan(G, lat, lon, p + 1,
                              [inf |-> FALSE, min_distance |-> distance,
                               nearest_node |-> NodeOf(node_id)])
             ELSE NearestScan(G, lat, lon, p + 1, best)

\* find_nearest_node(G, lat, lon)
find_nearest_node(G, lat, lon) ==
    NearestScan(G, lat, lon, 1,
                [inf |-> TRUE, min_distance |-> 0, nearest_node |-> NodeNone])

\* the key of get_nearest_node: (p[0] - lat)**2 + (p[1] - lon)**2
SquaredDistance(p, lat, lon) ==
    (p[1] - lat) * (p[1] - lat) + (p[2] - lon) * (p[2] - lon)

\* get_nearest_node(G, lat, lon): min() returns the first of the least, and
\* raises ValueError on no element
get_nearest_node(G, lat, lon) ==
    IF G.order = <<>> THEN [kind |-> "ValueError", node |-> 0]
    ELSE LET q == CHOOSE q \in DOMAIN G.order :
                     \A r \in DOMAIN G.order :
                        LET dq == SquaredDistance(G.order[q], lat, lon)
                            dr == SquaredDistance(G.order[r], lat, lon)
                        IN  dq < dr \/ (dq = dr /\ q <= r)
         IN  NodeOf(G.order[q])

\* find_nearest_node(graph, lat, lon)
FindNearestNode ==
    /\ ~IsPointGraph(graph) \/ graph.order = <<>>
    /\ \E lat \in {0, 60}, lon \in NearLons :
          last' = [NoCall EXCEPT !.op = "find_nearest_node",
                                 !.arg = [lat |-> lat, lon |-> lon],
                                 !.ret = find_nearest_node(graph, lat, lon)]
    /\ UNCHANGED <<graph, startArg, endArg, pathArg, buildVars, scorerVars, appVars>>

\* get_nearest_node(graph, lat, lon)
GetNearestNode ==
    /\ IsPointGraph(graph)
    /\ \E lat \in {0, 60}, lon \in NearLons :
          last' = [NoCall EXCEPT !.op = "get_nearest_node",
                                 !.arg = [lat |-> lat, lon |-> lon],
                                 !.ret = get_nearest_node(graph, lat, lon)]
    /\ UNCHANGED <<graph, startArg, endArg, pathArg, buildVars, scorerVars, appVars>>

InitNearest ==
    /\ (graph \in LocationGraphs \/ graph \in PointGraphs)
    /\ startArg = 0
    /\ endArg = 0
    /\ pathArg = PathNone
    /\ last = NoCall
    /\ BuildIdle
    /\ ScorerIdle

NextNearest ==
    \/ FindNearestNode
    \/ GetNearestNode

SpecNearest == InitNearest /\ [][NextNearest]_vars

\* the (lat, lon) of a node of the graph, of either kind
Coordinates(n) ==
    IF IsPointGraph(graph) THEN n
    ELSE <<graph.node[n].latitude, graph.node[n].longitude>>

\* C23: on a graph that has nodes, the nearest-node lookup returns a node
\* whose squared coordinate distance dlat^2 + dlon^2 to the query
\* coordinates is the least of all nodes, and the first such node in the
\* graph's node iteration order.
C23_NearestMinimizesSquares ==
    (last.op \in {"find_nearest_node", "get_nearest_node"} /\ graph.order # <<>>) =>
      /\ last.ret.kind = "node"
      /\ \E p \in DOMAIN graph.order :
            /\ graph.order[p] = last.ret.node
            /\ \A q \in DOMAIN graph.order :
                  LET dp == SquaredDistance(Coordinates(graph.order[p]),
                                            last.arg.lat, last.arg.lon)
                      dq == SquaredDistance(Coordinates(graph.order[q]),
                                            last.arg.lat, last.arg.lon)
                  IN  dp < dq \/ (dp = dq /\ p <= q)

(***************************************************************************)
(* src/graph_builder.py: the grid variant of build_graph.  Coordinates     *)
(* are whole multiples of 0.005 degree.  The lattice has GridSize points   *)
(* a side (the source: 60) over the bounding box of df_all, whose sides    *)
(* make the lattice step 1, 2 or 4 units.  A distance, the square root of  *)
(* a sum of squares, is kept as that sum (dist2), and a weight             *)
(* dist * (1 + risk) as the pair of dist2 and the numerator of 1 + risk    *)
(* over RiskScale (factor).  The risk model gives each lattice point the   *)
(* risk 0 or 1.                                                            *)
(***************************************************************************)
GridSize == 3

\* NEIGHBOR_THRESHOLD = 0.02, in units of 0.005 degree
NEIGHBOR_THRESHOLD == 4

GridSteps == {1, 2, 4}

\* np.linspace(lo, hi, GridSize)
linspace(lo, hi) == [k \in 1..GridSize |-> lo + ((hi - lo) * (k - 1)) \div (GridSize - 1)]

\* the least and the greatest of a column of df_all
ColumnMin(df, col) == CHOOSE x \in {df[i][col] : i \in DOMAIN df} :
                         \A i \in DOMAIN df : x <= df[i][col]
ColumnMax(df, col) == CHOOSE x \in {df[i][col] : i \in DOMAIN df} :
                         \A i \in DOMAIN df : x >= df[i][col]

Abs(x) == IF x < 0 THEN 0 - x ELSE x

\* predict_point_risk(risk_model, lat, lon): the risk the fitted model
\* predicts at a point, in units of 1/RiskScale
predict_point_risk(risk_model, lat, lon) == risk_model[<<lat, lon>>]

\* the loops `for la in lats: for lo in lons`, from the k-th pair on
RECURSIVE GridNodes(_, _, _, _, _)
GridNodes(G, nodes, lats, lons, k) ==
    IF k > GridSize * GridSize THEN [graph |-> G, nodes |-> nodes]
    ELSE LET la   == lats[((k - 1) \div GridSize) + 1]
             lo   == lons[((k - 1) % GridSize) + 1]
             node == <<la, lo>>
         IN  GridNodes(AddNode(G, node, <<>>), Append(nodes, node), lats, lons, k + 1)

\* the k-th pair (a, b) of the loops `for a in nodes: for b in nodes`
VisitA(nodes, k) == nodes[((k - 1) \div Len(nodes)) + 1]
VisitB(nodes, k) == nodes[((k - 1) % Len(nodes)) + 1]

\* the pairs that pass the test of the two coordinate differences
GridVisits(nodes) ==
    {k \in 1..(Len(nodes) * Len(nodes)) :
        LET a == VisitA(nodes, k)
            b == VisitB(nodes, k)
        IN  /\ Abs(a[1] - b[1]) < NEIGHBOR_THRESHOLD
            /\ Abs(a[2] - b[2]) < NEIGHBOR_THRESHOLD}

\* the attributes G.add_edge(a, b, weight=weight) is given for the pair (a, b)
GridEdgeData(risk_model, a, b) ==
    LET dist2  == (a[1] - b[1]) * (a[1] - b[1]) + (a[2] - b[2]) * (a[2] - b[2])
        risk   == predict_point_risk(risk_model, a[1], a[2])
        weight == [dist2 |-> dist2, factor |-> RiskScale + risk]
    IN  [weight |-> weight]

\* G after the loops `for a in nodes: for b in nodes`: add_edge on an edge
\* that is already there updates its attributes, so an edge ends with the
\* attributes of the last pair that names it, and a node's neighbours come
\* in the order of the node list
GridEdges(G, nodes, risk_model) ==
    LET visits   == GridVisits(nodes)
        Ends(k)  == {VisitA(nodes, k), VisitB(nodes, k)}
        edges    == {Ends(k) : k \in visits}
        Last(e)  == CHOOSE k \in visits :
                       Ends(k) = e /\ \A k2 \in visits : Ends(k2) = e => k2 <= k
        Nbrs(u)  == LET IsNbr(v) == {u, v} \in edges
                    IN  SelectSeq(G.order, IsNbr)
    IN  [G EXCEPT !.adj  = [u \in DOMAIN G.adj |-> Nbrs(u)],
                  !.edge = [e \in edges |->
                              GridEdgeData(risk_model, VisitA(nodes, Last(e)),
                                           VisitB(nodes, Last(e)))]]

\* build_graph(df_all, risk_model) of src/graph_builder.py
build_grid_graph(df_all, risk_model) ==
    LET lats == linspace(ColumnMin(df_all, "lat"), ColumnMax(df_all, "lat"))
        lons == linspace(ColumnMin(df_all, "lon"), ColumnMax(df_all, "lon"))
        r    == GridNodes(EmptyGraph, <<>>, lats, lons, 1)
    IN  GridEdges(r.graph, r.nodes, risk_model)

\* the two corners of a box whose lattice has the steps slat and slon
CornerTable(slat, slon) ==
    <<[lat |-> (GridSize - 1) * slat, lon |-> 0],
      [lat |-> 0, lon |-> (GridSize - 1) * slon]>>

LatticeOf(df_all) ==
    {<<la, lo>> : la \in Range(linspace(ColumnMin(df_all, "lat"), ColumnMax(df_all, "lat"))),
                  lo \in Range(linspace(ColumnMin(df_all, "lon"), ColumnMax(df_all, "lon")))}

\* G = build_graph(df_all, risk_model)
BuildGridGraph ==
    /\ last.op = "none"
    /\ \E slat \in GridSteps, slon \in GridSteps :
          LET df_all == CornerTable(slat, slon)
          IN  \E risk_model \in [LatticeOf(df_all) -> {0, RiskScale}] :
                 /\ graph' = build_grid_graph(df_all, risk_model)
                 /\ last' = [NoCall EXCEPT
                               !.op = "build_grid_graph",
                               !.arg = [df_all |-> df_all, risk_model |-> risk_model,
                                        slat |-> slat, slon |-> slon]]
    /\ UNCHANGED <<startArg, endArg, pathArg, buildVars, scorerVars, appVars>>

InitGrid ==
    /\ graph = EmptyGraph
    /\ startArg = 0
    /\ endArg = 0
    /\ pathArg = PathNone
    /\ last = NoCall
    /\ BuildIdle
    /\ ScorerIdle

NextGrid == BuildGridGraph

SpecGrid == InitGrid /\ [][NextGrid]_vars

\* two lattice points next to each other: at most one step apart along each
\* axis, and not the same point
LatticeAdjacent(a, b) ==
    /\ a # b
    /\ Abs(a[1] - b[1]) <= last.arg.slat
    /\ Abs(a[2] - b[2]) <= last.arg.slon

\* C24: every edge of the grid graph joins two lattice-adjacent points,
\* carries exactly the attributes distance, risk and weight, with
\* weight = distance * (1 + 2 * risk) for the risk the model predicts at
\* an end of the edge, and the weight is the same whichever end is visited
\* first.
C24_GridEdges ==
    last.op = "build_grid_graph" =>
      \A e \in DOMAIN graph.edge :
         \E a, b \in e :
            /\ e = {a, b}
            /\ LatticeAdjacent(a, b)
            /\ DOMAIN graph.edge[e] = {"distance", "risk", "weight"}
            /\ graph.edge[e].weight.factor = RiskScale + 2 * graph.edge[e].risk
            /\ predict_point_risk(last.arg.risk_model, a[1], a[2])
                  = predict_point_risk(last.arg.risk_model, b[1], b[2])

(***************************************************************************)
(* The two searches on one graph and one pair of ids.                      *)
(***************************************************************************)
FindCalls == {"find_safest_route", "find_shortest_route"}

\* C25: on one graph and one pair of nodes of it, find_safest_route
\* returns None exactly when find_shortest_route returns None, and either
\* does exactly when no walk joins the two nodes.
C25_NoneTogether ==
    /\ [](last.op \in FindCalls /\ BothInGraph
          => (last.ret = RetNone <=> ~Connected(graph, startArg, endArg)))
    /\ [][(last.op \in FindCalls /\ last'.op \in FindCalls /\ last'.op # last.op)
          => (last.ret = RetNone <=> last'.ret = RetNone)]_vars

\* the shortest route of two nodes of different components, both with
\* edges, was None
C25_Witness ==
    /\ last.op = "find_shortest_route"
    /\ last.ret = RetNone
    /\ BothInGraph
    /\ graph.adj[startArg] # <<>>
    /\ graph.adj[endArg] # <<>>
    /\ find_safest_route(graph, startArg, endArg) = RetNone

(***************************************************************************)
(* The two routes compared (demo.py, steps 4 to 6): the graph is built,    *)
(* the safest route is found and kept, the shortest route is found, and    *)
(* the two are compared when both are routes.  The locations are on the    *)
(* equator, but for the last row of the table, which may be one degree     *)
(* off it (calculate_distance takes the cosine of the first location's     *)
(* latitude, always a row before the last).                                *)
(***************************************************************************)
ComparePoints == {<<0, 0>>, <<0, 2>>, <<0, 4>>, <<1, 1>>}

\* max_connection_distance, in km: the legs to the point off the equator
\* only; those and neighbours on the equator; all points
CompareDistances == {160, 222, 7000}

\* shortest_path = route_finder.find_shortest_route(start, end), the
\* caller keeping the safest route it has just got
FindShortestRouteNext ==
    /\ last.op = "find_safest_route"
    /\ pathArg' = IF last.ret.kind = "path" THEN PathOf(last.ret.path) ELSE PathNone
    /\ last' = [NoCall EXCEPT !.op = "find_shortest_route",
                              !.start = startArg, !.end = endArg,
                              !.ret = find_shortest_route(graph, startArg, endArg)]
    /\ UNCHANGED <<graph, startArg, endArg, buildVars, scorerVars, appVars>>

\* route_finder.compare_routes(safest_path, shortest_path), under
\* `if safest_path and shortest_path`
CompareRoutes ==
    /\ last.op = "find_shortest_route"
    /\ last.ret.kind = "path"
    /\ ~pathArg.isNone
    /\ last' = [NoCall EXCEPT !.op = "compare_routes",
                              !.start = startArg, !.end = endArg,
                              !.arg = pathArg, !.ret = last.ret,
                              !.info = compare_routes(graph, pathArg,
                                                      PathOf(last.ret.path))]
    /\ UNCHANGED <<graph, startArg, endArg, pathArg, buildVars, scorerVars, appVars>>

InitCompare ==
    /\ graph = EmptyGraph
    /\ pathArg = PathNone
    /\ last = NoCall
    /\ \E n \in 0..MaxLocations :
          /\ \E pts \in [1..n -> ComparePoints] :
                /\ \A p \in 1..(n - 1) : pts[p][1] = 0
                /\ locations_df = Table([p \in 1..n |-> pts[p][1]],
                                        [p \in 1..n |-> pts[p][2]], "range", "range")
          /\ risk_scores \in [1..n -> TripScores]
    /\ max_connection_distance \in CompareDistances
    /\ startArg \in 0..(MaxLocations - 1)
    /\ endArg \in 0..(MaxLocations - 1)
    /\ ScorerIdle

NextCompare ==
    \/ BuildGraph
    \/ FindSafestRouteBuilt
    \/ FindShortestRouteNext
    \/ CompareRoutes

SpecCompare == InitCompare /\ [][NextCompare]_vars

\* C26: when the safest and the shortest route of two nodes of a built
\* graph are compared, the shortest route's total distance is at most the
\* safest route's, the safest route's total weight is at most the shortest
\* route's, and distance_difference (safest minus shortest) is not
\* negative.
C26_SafestNoShorter ==
    last.op = "compare_routes" =>
      LET safest   == last.arg.nodes
          shortest == last.ret.path
      IN  /\ last.info.route2.total_distance <= last.info.route1.total_distance
          /\ WalkCost(graph, shortest, "distance") <= WalkCost(graph, safest, "distance")
          /\ WalkCost(graph, safest, "weight") <= WalkCost(graph, shortest, "weight")
          /\ last.info.distance_difference >= 0
          /\ last.info.distance_difference
                = WalkCost(graph, safest, "distance") - WalkCost(graph, shortest, "distance")

\* the safest route, round a risky edge, is longer than the shortest route
\* and of less weight
C26_Witness ==
    /\ last.op = "compare_routes"
    /\ last.info.distance_difference > 0
    /\ WalkCost(graph, last.arg.nodes, "weight")
          < WalkCost(graph, last.ret.path, "weight")
    /\ Len(last.arg.nodes) = 3
    /\ Len(last.ret.path) = 2

(***************************************************************************)
(* build_graph on any location table: ids and index labels that count from *)
(* 0 in table order, against it, or from 1 (a table that was sorted,       *)
(* filtered or re-labelled after load_data made it).                       *)
(***************************************************************************)
AnyIdSchemes == {"range", "reversed", "shifted"}
AnyIdxSchemes == {"range", "reversed", "shifted"}

InitBuildAny ==
    /\ graph = EmptyGraph
    /\ startArg = 0
    /\ endArg = 0
    /\ pathArg = PathNone
    /\ last = NoCall
    /\ \E n \in 0..MaxLocations :
          /\ \E lat \in [1..n -> Lats], lon \in [1..n -> Lons],
                ids \in AnyIdSchemes, idxs \in AnyIdxSchemes :
                locations_df = Table(lat, lon, ids, idxs)
          /\ risk_scores \in [1..n -> 0..RiskScale]
    /\ max_connection_distance \in MaxDistances
    /\ ScorerIdle

NextBuildAny == BuildGraph

SpecBuildAny == InitBuildAny /\ [][NextBuildAny]_vars

\* C27: in the graph build_graph returns, every location of the table is a
\* node, no edge joins a node to itself, and a node's risk_score is the
\* score of its row that the risk of the edges at it was computed from
\* (risk_scores at the row's position), whatever the table's index labels
\* and location ids.
C27_NodesCarryEdgeScores ==
    Built =>
      /\ GraphNodes(graph) = {locations_df[p].location_id : p \in Rows}
      /\ \A e \in DOMAIN graph.edge : Cardinality(e) = 2
      /\ \A p \in Rows :
            graph.node[locations_df[p].location_id].risk_score = risk_scores[p]

(***************************************************************************)
(* The dashboard's script runs.  Streamlit runs the script from the top on *)
(* every interaction, with at most one button pressed; an action is one    *)
(* such run: the pressed button's handler and the map output of the run.   *)
(***************************************************************************)
Modes == {"By Name (dropdown)", "Manual Entry", "Pick on Map"}

\* the points a user can type in or click: the hotspots and one more
EnteredPoints == POPULAR_LOCATIONS \cup {<<4, 2>>}

\* what the routing service's JSON can be: a route between the waypoints,
\* a body whose features are empty, or an error body without features
Geometry(sp, ep) == [isNone |-> FALSE, waypoints |-> <<sp, ep>>]

Responses(sp, ep) ==
    {[hasFeatures |-> TRUE, features |-> <<Geometry(sp, ep)>>],
     [hasFeatures |-> TRUE, features |-> <<>>],
     [hasFeatures |-> FALSE, features |-> <<>>]}

\* a handler that, on a body without a route, drops the route and keeps the flag
routing_keepsFlag(state, sp, ep, route_json) ==
    IF route_json.hasFeatures /\ Len(route_json.features) > 0
    THEN [state EXCEPT !.route_geojson = route_json.features[1],
                       !.route_midpoint = [isNone |-> FALSE,
                                           lat |-> (sp[1] + ep[1]) \div 2,
                                           lon |-> (sp[2] + ep[2]) \div 2],
                       !.route_exists = TRUE]
    ELSE [state EXCEPT !.route_geojson = GeoNone]

\* `if submitted:` after the request has answered
routing(state, sp, ep, route_json) ==
    IF route_json.hasFeatures /\ Len(route_json.features) > 0
    THEN [state EXCEPT !.route_geojson = route_json.features[1],
                       !.route_midpoint = [isNone |-> FALSE,
                                           lat |-> (sp[1] + ep[1]) \div 2,
                                           lon |-> (sp[2] + ep[2]) \div 2],
                       !.route_exists = TRUE]
    ELSE [state EXCEPT !.route_geojson = GeoNone,
                       !.route_exists = FALSE]

\* the map the run draws: none unless route_exists
NoMap == [drawn |-> FALSE, location |-> MidNone, geojson |-> GeoNone]

map_output(state) ==
    IF state.route_exists
    THEN [drawn |-> TRUE, location |-> state.route_midpoint,
          geojson |-> state.route_geojson]
    ELSE NoMap

\* the Clear Map handler, before it asks for a rerun
clear_map(state) ==
    [state EXCEPT !.route_geojson = GeoNone,
                  !.route_exists = FALSE,
                  !.route_midpoint = MidNone]

\* the start and end the run's input mode gives the request
RunPoints(mode) ==
    IF mode = "Pick on Map"
    THEN {<<<<session_state.start_lat, session_state.start_lon>>,
            <<session_state.end_lat, session_state.end_lon>>>>}
    ELSE IF mode = "By Name (dropdown)"
         THEN POPULAR_LOCATIONS \X POPULAR_LOCATIONS
         ELSE EnteredPoints \X EnteredPoints

AppCall(op, mode, pts, response, map) ==
    [NoCall EXCEPT !.op = op,
                   !.arg = [mode |-> mode, points |-> pts, response |-> response],
                   !.ret = map]

AppUnchanged ==
    UNCHANGED <<graph, startArg, endArg, pathArg, buildVars,
                risk_scorer, features_df, proba>>

\* Find Safe Route pressed and the service answered with a JSON body
FindSafeRoute ==
    \E mode \in Modes : \E pts \in RunPoints(mode) :
       \E route_json \in Responses(pts[1], pts[2]) :
          /\ session_state' = routing(session_state, pts[1], pts[2], route_json)
          /\ last' = AppCall("find_safe_route", mode, pts, route_json,
                             map_output(session_state'))
          /\ AppUnchanged

\* Find Safe Route pressed and requests.get or response.json raised: the
\* run ends there, the session state is as it was and nothing is drawn
FindSafeRouteRaises ==
    \E mode \in Modes : \E pts \in RunPoints(mode) :
          /\ last' = AppCall("find_safe_route_raised", mode, pts,
                             [hasFeatures |-> FALSE, features |-> <<>>], NoMap)
          /\ UNCHANGED session_state
          /\ AppUnchanged

\* Pick on Map: a click, then Set as Start Point or Set as End Point
SetPoint ==
    \E which \in {"start", "end"}, clicked \in EnteredPoints :
          /\ session_state' =
                IF which = "start"
                THEN [session_state EXCEPT !.start_lat = clicked[1],
                                           !.start_lon = clicked[2]]
                ELSE [session_state EXCEPT !.end_lat = clicked[1],
                                           !.end_lon = clicked[2]]
          /\ last' = AppCall("set_" \o which, "Pick on Map",
                             <<<<session_state'.start_lat, session_state'.start_lon>>,
                               <<session_state'.end_lat, session_state'.end_lon>>>>,
                             [hasFeatures |-> FALSE, features |-> <<>>],
                             map_output(session_state'))
          /\ AppUnchanged

\* Clear Map pressed: the handler, then the rerun it asks for
ClearMap ==
    \E mode \in Modes : \E pts \in RunPoints(mode) :
          /\ session_state' = clear_map(session_state)
          /\ last' = AppCall("clear_map", mode, pts,
                             [hasFeatures |-> FALSE, features |-> <<>>],
                             map_output(session_state'))
          /\ AppUnchanged

InitApp ==
    /\ graph = EmptyGraph
    /\ startArg = 0
    /\ endArg = 0
    /\ pathArg = PathNone
    /\ last = NoCall
    /\ BuildIdle
    /\ ScorerIdle

NextApp == FindSafeRoute \/ FindSafeRouteRaises \/ SetPoint \/ ClearMap

SpecApp == InitApp /\ [][NextApp]_vars

AppOps == {"find_safe_route", "find_safe_route_raised", "set_start", "set_end",
           "clear_map"}

\* C28: in the dashboard's session state route_exists is true only if
\* route_geojson and route_midpoint are both set; after a Find Safe Route
\* whose answer holds no route, and after Clear Map, route_exists is false
\* and route_geojson is None; and a map a run draws has a location and a
\* route geometry that are not None.
C28_RouteExistsHasData ==
    /\ session_state.route_exists =>
          /\ ~session_state.route_geojson.isNone
          /\ ~session_state.route_midpoint.isNone
    /\ (/\ last.op = "find_safe_route"
        /\ ~(last.arg.response.hasFeatures /\ Len(last.arg.response.features) > 0))
          => (~session_state.route_exists /\ session_state.route_geojson.isNone)
    /\ last.op = "clear_map"
          => (~session_state.route_exists /\ session_state.route_geojson.isNone)
    /\ (last.op \in AppOps /\ last.ret.drawn)
          => (~last.ret.location.isNone /\ ~last.ret.geojson.isNone)

\* a request that found no route, made while an earlier route's midpoint is
\* still in the session
C28_Witness ==
    /\ last.op = "find_safe_route"
    /\ ~last.arg.response.hasFeatures
    /\ ~session_state.route_midpoint.isNone
    /\ ~session_state.route_exists
    /\ session_state.route_geojson.isNone

====
